---- MODULE Spec2Model ----
(***************************************************************************)
(* Request-processing building blocks of axum-template:                    *)
(*   - the interceptor pipeline (library/src/interceptor/cors.rs),         *)
(*   - the JWT authentication gate, its claims codec and the Jwt<T>        *)
(*     accessor (library/src/jsonwebtoken, library/src/middleware/jwt.rs,  *)
(*     src/middleware/jwt.rs),                                             *)
(*   - the path predicates (src/tools/compare/str.rs, Allow).              *)
(* Each component has its own specification over its own variables; the    *)
(* variables of the other components keep their initial values.            *)
(***************************************************************************)
EXTENDS Integers, Sequences, FiniteSets, TLC

VARIABLES
    pipe,       \* per request: the state of one InterceptorService::call future
    gateCfg,    \* the mounted JwtAuth layer: variant, predicate, mounted or not
    gate,       \* the request travelling through JwtAuthService::call
    clock,      \* the system clock, whole seconds since the epoch
    ticks,      \* how many times the clock has been advanced
    issued,     \* tokens handed out by JwtToken::encode
    codec,      \* the last JwtToken::decode and what it returned
    cmp,        \* one evaluation of a path predicate
    logCfg,     \* the logger's configuration and which logger it is
    lreq,       \* per request: the state of one LoggerService::call future
    logger,     \* the consumer: alive or not, `time`, the open log file
    chan,       \* the records queued in the channel
    disk,       \* the files of the log directory
    stdout,     \* the lines written to standard output
    lhist,      \* history: records sent, records taken, the last record's report
    stack,      \* per request: one call through two stacked pipeline adapters
    icept,      \* one request through one of the concrete interceptors
    calc,       \* one evaluation of tools::unit
    form        \* one multipart form read through a Take

vars == <<pipe, gateCfg, gate, clock, ticks, issued, codec, cmp,
          logCfg, lreq, logger, chan, disk, stdout, lhist, stack, icept, calc, form>>

\* The variables of the log sidecar.
LogVars == <<logCfg, lreq, logger, chan, disk, stdout, lhist>>

\* The variables of the stacked adapters and of the concrete interceptors.
IceptVars == <<stack, icept>>

\* The variables of the tools: unit and the multipart Take.
ToolVars == <<calc, form>>

(***************************************************************************)
(* Bounds of the model.                                                    *)
(***************************************************************************)
NumReqs == 2        \* concurrent requests through one pipeline adapter
MaxLen == 3         \* longest path / pattern, in characters
MaxIssued == 1      \* tokens encoded in one behaviour
MaxTicks == 3       \* clock advances in one behaviour
MaxDays == 1        \* days the clock advances past the logger's start
MaxFaults == 2      \* failed writes, opens and scans in one behaviour
MaxParams == 2      \* parameters in a query string
MaxBody == 2        \* bytes in the 404 page
MaxCount == 3       \* largest end of a Take's count range

Reqs == 1..NumReqs

(***************************************************************************)
(* resp.rs: Res and its conversion into a response.                        *)
(***************************************************************************)
Res(code, info) == [code |-> code, info |-> info, data |-> "unit"]

\* http::StatusCode::from_u16 accepts 100..=999; Response::builder().unwrap()
\* panics on anything else.
ValidStatus(code) == code >= 100 /\ code <= 999

IntoResponse(res) ==
    IF ValidStatus(res.code)
    THEN [kind |-> "response", status |-> res.code,
          ctype |-> "application/json",
          body |-> <<"code", res.code, "info", res.info, "data", res.data>>,
          mark |-> "none"]
    ELSE [kind |-> "panic"]

(***************************************************************************)
(* Interceptor pipeline: InterceptorService::call.                          *)
(***************************************************************************)
Ctxs == {"ctxA", "ctxB"}

Rejections == {Res(400, "bad request"), Res(403, "forbidden"), Res(1000, "bad code")}

\* What the interceptor's `before` returns for a request.
BeforeResults ==
    [ok : {TRUE}, ctx : Ctxs] \cup [ok : {FALSE}, err : Rejections]

\* What the downstream service resolves to: a response or S::Error.
DownResponse(status) ==
    [kind |-> "response", status |-> status, ctype |-> "text/plain",
     body |-> <<"down", status>>, mark |-> "none"]

DownResults == {DownResponse(200), DownResponse(404), [kind |-> "error"]}

NoOutcome == [kind |-> "none"]

IdleCall ==
    [pc |-> "idle", before |-> NoOutcome, ctx |-> "none", downCalls |-> 0,
     down |-> NoOutcome, afterCalls |-> 0, afterCtx |-> "none",
     response |-> NoOutcome,
     outcome |-> NoOutcome, hist |-> <<>>]

PipeInit == pipe = [r \in Reqs |-> IdleCall]

\* Intercept::after of the interceptor under test: it stamps the response
\* with the context it was given.
AfterEffect(ctx, resp) == [resp EXCEPT !.mark = ctx]

\* call(): clone the interceptor, take the ready inner service, box the future.
PipeCall(r, verdict) ==
    /\ pipe[r].pc = "idle"
    /\ pipe' = [pipe EXCEPT ![r].pc = "before", ![r].before = verdict]

\* The future's first stage: interceptor.before(&mut req).await and the match.
\* (PipeBeforeMut: the same stage without the short circuit.)
PipeBeforeMut(r) ==
    /\ pipe[r].pc = "before"
    /\ pipe' = [pipe EXCEPT
            ![r].pc = "downstream",
            ![r].ctx = IF pipe[r].before.ok THEN pipe[r].before.ctx ELSE "none",
            ![r].downCalls = @ + 1,
            ![r].hist = Append(@, "before") \o <<"downstream">>]

PipeBefore(r) ==
    /\ pipe[r].pc = "before"
    /\ IF pipe[r].before.ok
       THEN pipe' = [pipe EXCEPT
                ![r].pc = "downstream",
                ![r].ctx = pipe[r].before.ctx,
                ![r].downCalls = @ + 1,
                ![r].hist = Append(@, "before") \o <<"downstream">>]
       ELSE LET out == IntoResponse(pipe[r].before.err) IN
            pipe' = [pipe EXCEPT
                ![r].pc = IF out.kind = "panic" THEN "panicked" ELSE "done",
                ![r].outcome = out,
                ![r].hist = Append(@, "before") \o <<"return">>]

\* ready_inner.call(req).await? : a response goes on to `after`, an error
\* leaves the future through `?`.
\* (PipeDownstreamMut: an error turned into a 500 response and passed on.)
PipeDownstreamMut(r, result) ==
    /\ pipe[r].pc = "downstream"
    /\ pipe' = [pipe EXCEPT
            ![r].pc = "after",
            ![r].down = result,
            ![r].response = IF result.kind = "error" THEN DownResponse(500) ELSE result]

PipeDownstream(r, result) ==
    /\ pipe[r].pc = "downstream"
    /\ IF result.kind = "error"
       THEN pipe' = [pipe EXCEPT
                ![r].pc = "done",
                ![r].ctx = "none",
                ![r].down = result,
                ![r].outcome = result,
                ![r].hist = Append(@, "return")]
       ELSE pipe' = [pipe EXCEPT
                ![r].pc = "after",
                ![r].down = result,
                ![r].response = result]

\* interceptor.after(ctx, &mut response).await; Ok(response)
\* (PipeAfterEarly: the response handed back before `after` has run on it.)
PipeAfterEarly(r) ==
    /\ pipe[r].pc = "after"
    /\ pipe' = [pipe EXCEPT
            ![r].pc = "done",
            ![r].afterCalls = @ + 1,
            ![r].afterCtx = pipe[r].ctx,
            ![r].ctx = "none",
            ![r].outcome = pipe[r].response,
            ![r].response = AfterEffect(pipe[r].ctx, pipe[r].response),
            ![r].hist = Append(@, "return") \o <<"after">>]

\* (PipeAfterShared: the context kept in the service, shared by the calls
\* in flight, instead of in the future of one call.)
PipeAfterShared(r) ==
    /\ pipe[r].pc = "after"
    /\ \E q \in Reqs :
        /\ pipe[q].ctx # "none"
        /\ LET out == AfterEffect(pipe[q].ctx, pipe[r].response) IN
           pipe' = [pipe EXCEPT
                ![r].pc = "done",
                ![r].afterCalls = @ + 1,
                ![r].afterCtx = pipe[q].ctx,
                ![r].ctx = "none",
                ![r].response = out,
                ![r].outcome = out,
                ![r].hist = Append(@, "after") \o <<"return">>]

PipeAfter(r) ==
    /\ pipe[r].pc = "after"
    /\ LET out == AfterEffect(pipe[r].ctx, pipe[r].response) IN
       pipe' = [pipe EXCEPT
            ![r].pc = "done",
            ![r].afterCalls = @ + 1,
            ![r].afterCtx = pipe[r].ctx,
            ![r].ctx = "none",
            ![r].response = out,
            ![r].outcome = out,
            ![r].hist = Append(@, "after") \o <<"return">>]

\* The caller drops the boxed future at one of its await points.
PipeDrop(r) ==
    /\ pipe[r].pc \in {"before", "downstream", "after"}
    /\ pipe' = [pipe EXCEPT ![r].pc = "dropped", ![r].ctx = "none"]

\* A pipeline step leaves the other components alone.
PipeFrame ==
    UNCHANGED <<gateCfg, gate, clock, ticks, issued, codec, cmp, LogVars, IceptVars, ToolVars>>

PipeStart == PipeFrame /\ \E r \in Reqs, v \in BeforeResults : PipeCall(r, v)
PipeRunBefore == PipeFrame /\ \E r \in Reqs : PipeBefore(r)
PipeRunDownstream ==
    PipeFrame /\ \E r \in Reqs, d \in DownResults : PipeDownstream(r, d)
PipeRunAfter == PipeFrame /\ \E r \in Reqs : PipeAfter(r)
PipeCancel == PipeFrame /\ \E r \in Reqs : PipeDrop(r)

PipeNext ==
    \/ PipeStart
    \/ PipeRunBefore
    \/ PipeRunDownstream
    \/ PipeRunAfter
    \/ PipeCancel

(***************************************************************************)
(* Two stacked adapters: InterceptorService<InterceptorService<S, B>, A>,   *)
(* built by Layer::layer of B and then of A.  The inner service of A is     *)
(* the adapter of B; the inner service of B is the downstream service.      *)
(***************************************************************************)
IdleStack ==
    [pc |-> "idle", beforeA |-> NoOutcome, beforeB |-> NoOutcome,
     ctxA |-> "none", ctxB |-> "none", downCalls |-> 0, down |-> NoOutcome,
     afterACalls |-> 0, afterBCalls |-> 0, afterAGot |-> NoOutcome,
     response |-> NoOutcome, outcome |-> NoOutcome, hist |-> <<>>]

StackInit == stack = [r \in Reqs |-> IdleStack]

\* A's call(): clone A, take the ready adapter of B, box the future.
StackCall(r, va) ==
    /\ stack[r].pc = "idle"
    /\ stack' = [stack EXCEPT ![r].pc = "A.before", ![r].beforeA = va]

\* A's future: A.before(&mut req).await and the match.  On Ok it calls the
\* adapter of B, which clones B and boxes B's future.
StackBeforeA(r) ==
    /\ stack[r].pc = "A.before"
    /\ IF stack[r].beforeA.ok
       THEN stack' = [stack EXCEPT
                ![r].pc = "B.before",
                ![r].ctxA = stack[r].beforeA.ctx,
                ![r].hist = Append(@, "A.before")]
       ELSE LET out == IntoResponse(stack[r].beforeA.err) IN
            stack' = [stack EXCEPT
                ![r].pc = IF out.kind = "panic" THEN "panicked" ELSE "done",
                ![r].outcome = out,
                ![r].hist = Append(@, "A.before") \o <<"return">>]

\* B's future, awaited by A's: B.before(&mut req).await and the match.  B's
\* Err arm resolves to Ok(err.into_response()), a response for A's `after`;
\* a panic of into_response unwinds through both futures.
\* (StackBeforeBSkip: B's rejection returned past A's `after`.)
StackBeforeBSkip(r, vb) ==
    /\ stack[r].pc = "B.before"
    /\ IF vb.ok
       THEN stack' = [stack EXCEPT
                ![r].pc = "downstream",
                ![r].beforeB = vb,
                ![r].ctxB = vb.ctx,
                ![r].downCalls = @ + 1,
                ![r].hist = Append(@, "B.before") \o <<"downstream">>]
       ELSE LET out == IntoResponse(vb.err) IN
            stack' = [stack EXCEPT
                ![r].pc = IF out.kind = "panic" THEN "panicked" ELSE "done",
                ![r].ctxA = "none",
                ![r].beforeB = vb,
                ![r].outcome = out,
                ![r].hist = Append(@, "B.before") \o <<"return">>]

StackBeforeB(r, vb) ==
    /\ stack[r].pc = "B.before"
    /\ IF vb.ok
       THEN stack' = [stack EXCEPT
                ![r].pc = "downstream",
                ![r].beforeB = vb,
                ![r].ctxB = vb.ctx,
                ![r].downCalls = @ + 1,
                ![r].hist = Append(@, "B.before") \o <<"downstream">>]
       ELSE LET out == IntoResponse(vb.err) IN
            IF out.kind = "panic"
            THEN stack' = [stack EXCEPT
                    ![r].pc = "panicked",
                    ![r].ctxA = "none",
                    ![r].beforeB = vb,
                    ![r].outcome = out,
                    ![r].hist = Append(@, "B.before")]
            ELSE stack' = [stack EXCEPT
                    ![r].pc = "A.after",
                    ![r].beforeB = vb,
                    ![r].response = out,
                    ![r].hist = Append(@, "B.before")]

\* ready_inner.call(req).await? in B's future: an error leaves B's future
\* and then A's through `?`.
StackDownstream(r, result) ==
    /\ stack[r].pc = "downstream"
    /\ IF result.kind = "error"
       THEN stack' = [stack EXCEPT
                ![r].pc = "done",
                ![r].ctxA = "none",
                ![r].ctxB = "none",
                ![r].down = result,
                ![r].outcome = result,
                ![r].hist = Append(@, "return")]
       ELSE stack' = [stack EXCEPT
                ![r].pc = "B.after",
                ![r].down = result,
                ![r].response = result]

\* B.after(ctx, &mut response).await; Ok(response) to A's future.
StackAfterB(r) ==
    /\ stack[r].pc = "B.after"
    /\ stack' = [stack EXCEPT
            ![r].pc = "A.after",
            ![r].afterBCalls = @ + 1,
            ![r].ctxB = "none",
            ![r].response = AfterEffect(stack[r].ctxB, stack[r].response),
            ![r].hist = Append(@, "B.after")]

\* A.after(ctx, &mut response).await; Ok(response) to the caller.
StackAfterA(r) ==
    /\ stack[r].pc = "A.after"
    /\ LET out == AfterEffect(stack[r].ctxA, stack[r].response) IN
       stack' = [stack EXCEPT
            ![r].pc = "done",
            ![r].afterACalls = @ + 1,
            ![r].afterAGot = stack[r].response,
            ![r].ctxA = "none",
            ![r].response = out,
            ![r].outcome = out,
            ![r].hist = Append(@, "A.after") \o <<"return">>]

\* The caller drops A's future, and B's with it, at one of the await points.
StackDrop(r) ==
    /\ stack[r].pc \in {"A.before", "B.before", "downstream", "B.after", "A.after"}
    /\ stack' = [stack EXCEPT ![r] = [IdleStack EXCEPT !.pc = "dropped",
                                                     !.hist = stack[r].hist]]

StackFrame ==
    UNCHANGED <<pipe, gateCfg, gate, clock, ticks, issued, codec, cmp, LogVars, icept, ToolVars>>

StackStart ==
    StackFrame /\ \E r \in Reqs, va \in BeforeResults : StackCall(r, va)
StackRunBeforeA == StackFrame /\ \E r \in Reqs : StackBeforeA(r)
StackRunBeforeB ==
    StackFrame /\ \E r \in Reqs, vb \in BeforeResults : StackBeforeB(r, vb)
StackRunDownstream ==
    StackFrame /\ \E r \in Reqs, d \in DownResults : StackDownstream(r, d)
StackRunAfterB == StackFrame /\ \E r \in Reqs : StackAfterB(r)
StackRunAfterA == StackFrame /\ \E r \in Reqs : StackAfterA(r)
StackCancel == StackFrame /\ \E r \in Reqs : StackDrop(r)

StackNext ==
    \/ StackStart
    \/ StackRunBeforeA
    \/ StackRunBeforeB
    \/ StackRunDownstream
    \/ StackRunAfterB
    \/ StackRunAfterA
    \/ StackCancel

(***************************************************************************)
(* Path predicates: CompareStr (tools/compare/str.rs) and Allow            *)
(* (middleware/jwt.rs).  A string is a sequence of characters.             *)
(***************************************************************************)
Chars == {"a", "b"}

Strs == UNION {[1..n -> Chars] : n \in 0..MaxLen}

\* str::contains: pat occurs in uri as a contiguous substring.
Contains(uri, pat) ==
    \E i \in 1..(Len(uri) + 1) :
        /\ i + Len(pat) - 1 <= Len(uri)
        /\ SubSeq(uri, i, i + Len(pat) - 1) = pat

\* The functions handed to the gate as predicates.  "src_always_false" is
\* the function JwtAuth::default() declares in src/middleware/jwt.rs;
\* "lib_always_false" is compare::always_false of the library crate.
SrcAlwaysFalse(uri) == TRUE

LibAlwaysFalse(uri) == FALSE

FnNames == {"src_always_false", "lib_always_false", "only_a", "all"}

FnApply(name, uri) ==
    CASE name = "src_always_false" -> SrcAlwaysFalse(uri)
      [] name = "lib_always_false" -> LibAlwaysFalse(uri)
      [] name = "only_a" -> uri = <<"a">>
      [] name = "all" -> TRUE

\* A sequence as the set of its members.
Members(items) == {items[i] : i \in 1..Len(items)}

\* CompareStr::compare, by implementing type.
\* (CompareEq: the comparison by equality instead of containment.)
CompareEq(a, uri) ==
    CASE a.kind = "fn" -> FnApply(a.name, uri)
      [] a.kind \in {"str", "arc_string"} -> uri = a.lit
      [] a.kind \in {"array", "arc_vec"} -> uri \in Members(a.items)

Compare(a, uri) ==
    CASE a.kind = "fn" -> FnApply(a.name, uri)
      [] a.kind \in {"str", "arc_string"} -> Contains(uri, a.lit)
      [] a.kind \in {"array", "arc_vec"} ->
            \E i \in 1..Len(a.items) : Contains(uri, a.items[i])

\* Allow::allow of src/middleware/jwt.rs, by implementing type.
Allow(a, uri) ==
    CASE a.kind = "fn" -> FnApply(a.name, uri)
      [] a.kind \in {"str", "arc_string"} -> Contains(uri, a.lit)
      [] a.kind \in {"array", "arc_vec"} ->
            \E i \in 1..Len(a.items) : Contains(uri, a.items[i])

Traits == {"CompareStr", "Allow"}

FnPred(name) == [kind |-> "fn", name |-> name]
StrPred(kind, lit) == [kind |-> kind, lit |-> lit]
ListPred(kind, items) == [kind |-> kind, items |-> items]

\* The predicates a comparison is tried on: every function, every literal,
\* every list of up to two literals shorter than MaxLen.
Lists == UNION {[1..n -> {s \in Strs : Len(s) < MaxLen}] : n \in 0..2}

Preds ==
    {FnPred(n) : n \in FnNames}
    \cup {StrPred(k, l) : k \in {"str", "arc_string"}, l \in Strs}
    \cup {ListPred(k, l) : k \in {"array", "arc_vec"}, l \in Lists}

\* No comparison is under way.
CmpIdle == cmp = [done |-> FALSE, trait |-> "CompareStr", pred |-> FnPred("all"),
                  uri |-> <<>>, result |-> FALSE]

\* A predicate and a path to try it on.
CmpInit ==
    cmp \in {[done |-> FALSE, trait |-> t, pred |-> a, uri |-> u, result |-> FALSE] :
                t \in Traits, a \in Preds, u \in Strs}

\* One evaluation of the predicate on the path.
CmpApply(trait, a, uri) ==
    /\ ~cmp.done
    /\ cmp' = [cmp EXCEPT !.done = TRUE,
                          !.result = IF trait = "Allow" THEN Allow(a, uri)
                                     ELSE Compare(a, uri)]

CmpRun ==
    /\ CmpApply(cmp.trait, cmp.pred, cmp.uri)
    /\ UNCHANGED <<pipe, gateCfg, gate, clock, ticks, issued, codec, LogVars, IceptVars, ToolVars>>

CmpNext == CmpRun

(***************************************************************************)
(* Claims codec: JwtToken::encode / JwtToken::decode over                  *)
(* jsonwebtoken::{encode, decode} with Header::default() (HS256) and       *)
(* Validation::default() (exp required and validated, leeway 60 s).        *)
(***************************************************************************)
DefaultDuration == 60 * 60 * 24 * 15

Leeway == 60

Secrets == {"k1", "k2"}

\* CONFIG.jwt.secret, the key of Self::secret().
ConfigSecret == "k1"

Payloads == {[name |-> "ann", phone |-> "1"], [name |-> "bob", phone |-> "2"]}

\* serde_json of Claims { exp, data } with data = User { name, phone }.
SerializeUser(u) == <<"name", u.name, "phone", u.phone>>

DeserializeUser(j) == [name |-> j[2], phone |-> j[4]]

SerializeClaims(c) == <<"exp", c.exp, "data", SerializeUser(c.data)>>

DeserializeClaims(j) == [exp |-> j[2], data |-> DeserializeUser(j[4])]

\* HMAC-SHA256 of header.claims under a key, as an ideal MAC.
Sign(key, header, claims) == [key |-> key, header |-> header, claims |-> claims]

JwtHeader == [alg |-> "HS256", typ |-> "JWT"]

\* jsonwebtoken::encode(&secret.header, &claims, &secret.encoding_key)
JwtEncode(header, claims, key) ==
    [kind |-> "jwt", header |-> header, claims |-> SerializeClaims(claims),
     sig |-> Sign(key, header, SerializeClaims(claims))]

\* JwtToken::encode at time `now` with the secret `key`.
\* (EncodeNoDuration: exp without the duration added.)
EncodeNoDuration(p, now, key) ==
    JwtEncode(JwtHeader, [exp |-> now, data |-> p], key)

Encode(p, now, key) ==
    JwtEncode(JwtHeader, [exp |-> now + DefaultDuration, data |-> p], key)

\* jsonwebtoken's validation of the exp claim under Validation::default().
\* (ExpiredNoLeeway: the comparison with no leeway.)
ExpiredNoLeeway(exp, now) == exp < now

Expired(exp, now) == exp < now - Leeway

Ok(v) == [ok |-> TRUE, data |-> v]
Err(e) == [ok |-> FALSE, err |-> e]

\* (DecodeNoSig: decode with the signature comparison left out.)
DecodeNoSig(token, key, now) ==
    IF token.kind # "jwt" THEN Err("InvalidToken")
    ELSE LET c == DeserializeClaims(token.claims) IN
         IF Expired(c.exp, now) THEN Err("ExpiredSignature") ELSE Ok(c.data)

\* JwtToken::decode at time `now`: split, verify the signature, deserialize,
\* validate exp, hand back claims.data.
Decode(token, key, now) ==
    IF token.kind # "jwt" THEN Err("InvalidToken")
    ELSE IF token.sig # Sign(key, token.header, token.claims)
    THEN Err("InvalidSignature")
    ELSE LET c == DeserializeClaims(token.claims) IN
         IF Expired(c.exp, now) THEN Err("ExpiredSignature") ELSE Ok(c.data)

Garbage == [kind |-> "garbage"]

\* A token whose claims were rewritten after signing.
Tamper(token, p) ==
    [token EXCEPT !.claims =
        SerializeClaims([exp |-> DeserializeClaims(token.claims).exp, data |-> p])]

\* An issued token, with what it was made from.
Issue(p, now, key) ==
    [token |-> Encode(p, now, key), payload |-> p, key |-> key, at |-> now]

TickSteps == {1, Leeway, DefaultDuration}

NoDecode == [done |-> FALSE]

CodecInit ==
    /\ clock = 0
    /\ ticks = 0
    /\ issued = {}
    /\ codec = NoDecode

\* A handler calls payload.encode(); a peer with another secret may too.
CodecEncode(p, key) ==
    /\ Cardinality(issued) < MaxIssued
    /\ issued' = issued \cup {Issue(p, clock, key)}
    /\ codec' = NoDecode
    /\ UNCHANGED <<clock, ticks>>

\* Time passes.
Tick(d) ==
    /\ ticks < MaxTicks
    /\ clock' = clock + d
    /\ ticks' = ticks + 1

CodecTick(d) ==
    /\ Tick(d)
    /\ codec' = NoDecode
    /\ UNCHANGED issued

\* T::decode(token) with the configured secret at the current time.
CodecDecode(token) ==
    /\ codec' = [done |-> TRUE, token |-> token, at |-> clock,
                 result |-> Decode(token, ConfigSecret, clock)]
    /\ UNCHANGED <<clock, ticks, issued>>

\* The tokens a client can present: issued ones, tampered ones, garbage.
Presentable ==
    {i.token : i \in issued}
    \cup {Tamper(i.token, p) : i \in issued, p \in Payloads}
    \cup {Garbage}

\* A codec step leaves the other components alone.
CodecFrame == UNCHANGED <<pipe, gateCfg, gate, cmp, LogVars, IceptVars, ToolVars>>

CodecIssue == CodecFrame /\ \E p \in Payloads, k \in Secrets : CodecEncode(p, k)
CodecAdvance == CodecFrame /\ \E d \in TickSteps : CodecTick(d)
CodecVerify == CodecFrame /\ \E t \in Presentable : CodecDecode(t)

CodecNext ==
    \/ CodecIssue
    \/ CodecAdvance
    \/ CodecVerify

(***************************************************************************)
(* Authentication gate: auth_token, JwtAuthService::call in its three      *)
(* variants, and the Jwt<T> accessor.                                      *)
(***************************************************************************)
GateVariants == {"lib_jsonwebtoken", "lib_middleware", "src_middleware"}

\* The type under which a variant stores the claims in the extensions.
ClaimsType(variant) == IF variant = "src_middleware" THEN "Arc<T>" ELSE "T"

\* http::Extensions: at most one value per type.
ExtInsert(ext, ty, v) ==
    {e \in ext : e.type # ty} \cup {[type |-> ty, value |-> v]}

ExtGet(ext, ty) == {e.value : e \in {x \in ext : x.type = ty}}

ExtRemove(ext, ty) == {e \in ext : e.type # ty}

Absent == [kind |-> "absent"]
Basic == [kind |-> "basic"]
Bearer(t) == [kind |-> "bearer", token |-> t]

\* auth_token: typed_get::<Authorization<Bearer>>() then T::decode.
AuthToken(header, now) ==
    IF header.kind # "bearer"
    THEN [ok |-> FALSE, resp |-> IntoResponse(Res(401, "no token"))]
    ELSE LET d == Decode(header.token, ConfigSecret, now) IN
         IF d.ok THEN Ok(d.data)
         ELSE [ok |-> FALSE, resp |-> IntoResponse(Res(401, d.err))]

\* JwtAuth::default(): the predicate each variant installs.
DefaultAllow(variant) ==
    IF variant = "src_middleware"
    THEN FnPred("src_always_false")
    ELSE FnPred("lib_always_false")

\* Predicates given to JwtAuth::new.
NewAllows ==
    {FnPred("only_a"),
     StrPred("str", <<"a">>),
     StrPred("arc_string", <<"a", "b">>),
     ListPred("array", << <<"a">>, <<"b", "b">> >>),
     ListPred("arc_vec", << <<"b">> >>)}

GateCfgs ==
    {[variant |-> v, ctor |-> "new", allow |-> a, mounted |-> m] :
        v \in GateVariants, a \in NewAllows, m \in BOOLEAN}
    \cup {[variant |-> v, ctor |-> "default", allow |-> DefaultAllow(v),
           mounted |-> TRUE] : v \in GateVariants}

Request(path, header, ext) == [path |-> path, header |-> header, ext |-> ext]

IdleGate ==
    [pc |-> "idle", req |-> Request(<<>>, Absent, {}), verdict |-> "none",
     innerCalls |-> 0, forwarded |-> NoOutcome, rejection |-> NoOutcome,
     handlerRan |-> FALSE, acc |-> NoOutcome,
     accDecoded |-> FALSE, accAt |-> 0, outcome |-> NoOutcome]

GateInit ==
    /\ gateCfg \in GateCfgs
    /\ gate = IdleGate
    /\ clock = 0
    /\ ticks = 0
    /\ issued = {Issue(p, 0, ConfigSecret) : p \in Payloads}
                    \cup {Issue([name |-> "ann", phone |-> "1"], 0, "k2")}
    /\ codec = NoDecode

Headers == {Absent, Basic} \cup {Bearer(i.token) : i \in issued} \cup {Bearer(Garbage)}

\* A gate step leaves the other components and the gate's configuration alone.
GateFrame == UNCHANGED <<pipe, gateCfg, issued, codec, cmp, LogVars, IceptVars, ToolVars>>

\* A request reaches the route the gate is (or is not) mounted on.
GateArrive(path, header) ==
    /\ gate.pc = "idle"
    /\ gate' = [IdleGate EXCEPT !.pc = "arrived", !.req = Request(path, header, {})]
    /\ UNCHANGED <<clock, ticks>>

\* JwtAuthService::call of library/src/jsonwebtoken/middleware.rs and of
\* library/src/middleware/jwt.rs: everything up to Box::pin.
\* (LibCallInsertAfter: the request handed on before the claims are inserted;
\*  LibCallAuthFirst: the token checked before the predicate.)
LibCallInsertAfter(g, cfg, now) ==
    IF Compare(cfg.allow, g.req.path)
    THEN [g EXCEPT !.pc = "future", !.verdict = "bypassed",
                   !.innerCalls = @ + 1, !.forwarded = g.req]
    ELSE LET a == AuthToken(g.req.header, now) IN
         IF a.ok
         THEN [g EXCEPT !.pc = "future", !.verdict = "verified",
                        !.req.ext = ExtInsert(g.req.ext, "T", a.data),
                        !.innerCalls = @ + 1,
                        !.forwarded = g.req]
         ELSE [g EXCEPT !.pc = "future", !.verdict = "rejected",
                        !.rejection = a.resp]

LibCallAuthFirst(g, cfg, now) ==
    LET a == AuthToken(g.req.header, now) IN
    IF ~a.ok
    THEN [g EXCEPT !.pc = "future", !.verdict = "rejected",
                   !.rejection = a.resp]
    ELSE IF Compare(cfg.allow, g.req.path)
    THEN [g EXCEPT !.pc = "future", !.verdict = "bypassed",
                   !.innerCalls = @ + 1, !.forwarded = g.req]
    ELSE [g EXCEPT !.pc = "future", !.verdict = "verified",
                   !.req.ext = ExtInsert(g.req.ext, "T", a.data),
                   !.innerCalls = @ + 1,
                   !.forwarded = [g.req EXCEPT !.ext = ExtInsert(g.req.ext, "T", a.data)]]

\* (LibCallFallThrough: the bypass arm without its `return`, so a matched
\* request goes on to the token check as well.)
LibCallFallThrough(g, cfg, now) ==
    LET skip == Compare(cfg.allow, g.req.path)
        n == IF skip THEN 1 ELSE 0
        a == AuthToken(g.req.header, now)
    IN IF a.ok
       THEN [g EXCEPT !.pc = "future", !.verdict = "verified",
                      !.req.ext = ExtInsert(g.req.ext, "T", a.data),
                      !.innerCalls = @ + n + 1,
                      !.forwarded = [g.req EXCEPT !.ext = ExtInsert(g.req.ext, "T", a.data)]]
       ELSE [g EXCEPT !.pc = "future", !.verdict = "rejected",
                      !.innerCalls = @ + n,
                      !.forwarded = IF skip THEN g.req ELSE NoOutcome,
                      !.rejection = a.resp]

LibCall(g, cfg, now) ==
    IF Compare(cfg.allow, g.req.path)
    THEN [g EXCEPT !.pc = "future", !.verdict = "bypassed",
                   !.innerCalls = @ + 1, !.forwarded = g.req]
    ELSE LET a == AuthToken(g.req.header, now) IN
         IF a.ok
         THEN [g EXCEPT !.pc = "future", !.verdict = "verified",
                        !.req.ext = ExtInsert(g.req.ext, "T", a.data),
                        !.innerCalls = @ + 1,
                        !.forwarded = [g.req EXCEPT !.ext = ExtInsert(g.req.ext, "T", a.data)]]
         ELSE [g EXCEPT !.pc = "future", !.verdict = "rejected",
                        !.rejection = a.resp]

\* JwtAuthService::call of src/middleware/jwt.rs: self.inner.call(req) is
\* evaluated whatever the verdict, before the future is boxed.
SrcCall(g, cfg, now) ==
    LET skip == Allow(cfg.allow, g.req.path)
        a == AuthToken(g.req.header, now)
        ext == IF ~skip /\ a.ok THEN ExtInsert(g.req.ext, "Arc<T>", a.data)
               ELSE g.req.ext
    IN [g EXCEPT !.pc = "future",
                 !.verdict = IF skip THEN "bypassed"
                             ELSE IF a.ok THEN "verified" ELSE "rejected",
                 !.rejection = IF ~skip /\ ~a.ok THEN a.resp ELSE NoOutcome,
                 !.req.ext = ext,
                 !.innerCalls = @ + 1,
                 !.forwarded = [g.req EXCEPT !.ext = ext]]

GateCall ==
    /\ GateFrame
    /\ gate.pc = "arrived"
    /\ gateCfg.mounted
    /\ gate' = IF gateCfg.variant = "src_middleware"
               THEN SrcCall(gate, gateCfg, clock)
               ELSE LibCall(gate, gateCfg, clock)
    /\ UNCHANGED <<clock, ticks>>

\* No gate on the route: the router hands the request to the handler.
GateSkip ==
    /\ GateFrame
    /\ gate.pc = "arrived"
    /\ ~gateCfg.mounted
    /\ gate' = [gate EXCEPT !.pc = "handler", !.forwarded = gate.req,
                            !.innerCalls = @ + 1]
    /\ UNCHANGED <<clock, ticks>>

\* The boxed future is polled: a rejection is returned as the response,
\* otherwise the downstream future is awaited.
GatePoll ==
    /\ GateFrame
    /\ gate.pc = "future"
    /\ gate' = IF gate.verdict = "rejected"
               THEN [gate EXCEPT !.pc = "done", !.outcome = gate.rejection]
               ELSE [gate EXCEPT !.pc = "handler"]
    /\ UNCHANGED <<clock, ticks>>

\* Jwt<T>::from_request_parts on the request the handler received.
LibExtract(req, now) ==
    IF ExtGet(req.ext, "T") # {}
    THEN [result |-> Ok(CHOOSE v \in ExtGet(req.ext, "T") : TRUE),
          decoded |-> FALSE, ext |-> ExtRemove(req.ext, "T")]
    ELSE [result |-> AuthToken(req.header, now), decoded |-> TRUE, ext |-> req.ext]

\* (SrcExtractAlwaysDecode: the accessor ignoring the attached claims.)
SrcExtractAlwaysDecode(req, now) ==
    [result |-> AuthToken(req.header, now), decoded |-> TRUE, ext |-> req.ext]

SrcExtract(req, now) ==
    IF ExtGet(req.ext, "Arc<T>") # {}
    THEN [result |-> Ok(CHOOSE v \in ExtGet(req.ext, "Arc<T>") : TRUE),
          decoded |-> FALSE, ext |-> req.ext]
    ELSE [result |-> AuthToken(req.header, now), decoded |-> TRUE, ext |-> req.ext]

\* The handler `info(Jwt(user): Jwt<User>)`: the accessor runs, then the
\* handler answers 200 with the user, or the accessor's rejection is returned.
GateHandler ==
    /\ GateFrame
    /\ gate.pc = "handler"
    /\ LET x == IF gateCfg.variant = "src_middleware"
                THEN SrcExtract(gate.forwarded, clock)
                ELSE LibExtract(gate.forwarded, clock)
       IN gate' = [gate EXCEPT
                !.pc = "done",
                !.handlerRan = TRUE,
                !.acc = x.result,
                !.accDecoded = x.decoded,
                !.accAt = clock,
                !.outcome = IF x.result.ok
                            THEN [kind |-> "response", status |-> 200,
                                  ctype |-> "application/json",
                                  body |-> SerializeUser(x.result.data),
                                  mark |-> "none"]
                            ELSE x.result.resp]
    /\ UNCHANGED <<clock, ticks>>

\* The response has been sent; the next request can be taken.
GateReset ==
    /\ GateFrame
    /\ gate.pc = "done"
    /\ gate' = IdleGate
    /\ UNCHANGED <<clock, ticks>>

GateTick(d) ==
    /\ Tick(d)
    /\ UNCHANGED gate

\* The paths requested of the gated route.
GatePaths == {s \in Strs : Len(s) < MaxLen}

GateAccept == GateFrame /\ \E path \in GatePaths, h \in Headers : GateArrive(path, h)
GateAdvance == GateFrame /\ \E d \in {Leeway, DefaultDuration} : GateTick(d)

GateNext ==
    \/ GateAccept
    \/ GateCall
    \/ GateSkip
    \/ GatePoll
    \/ GateHandler
    \/ GateReset
    \/ GateAdvance

(***************************************************************************)
(* Log sidecar: Logger::new with its consumer, LoggerService::call as the  *)
(* producer, LogMsg and the logger configuration.  Two loggers exist: the  *)
(* library one (library/src/logger) and the application one                *)
(* (src/middleware/logger.rs with src/config/logger.rs).                   *)
(***************************************************************************)
LogVariants == {"lib", "src"}

DaySeconds == 60 * 60 * 24

\* DateTime::date_naive, as a day number.
DateOf(t) == t \div DaySeconds

\* Duration::num_days: whole days, rounded towards zero.
NumDays(d) == IF d >= 0 THEN d \div DaySeconds ELSE 0 - ((0 - d) \div DaySeconds)

\* time.format(&self.name) under the default name "%Y%m%d.log": one name
\* per calendar date.
FileName(t) == DateOf(t)

NoDelete == [some |-> FALSE]

SomeDays(n) == [some |-> TRUE, n |-> n]

\* LoggerConfig / config::Logger: the sinks and the retention window
\* (delete: Option<i64> in the library, Option<usize> in the application).
LogCfgs ==
    {c \in [variant : LogVariants, stdout : BOOLEAN, file : BOOLEAN,
            delete : {NoDelete, SomeDays(0), SomeDays(1)}] :
        /\ c.stdout \/ c.file
        /\ c.delete.some => c.file}

\* The comparison of one directory entry's age with the window.
Outdated(variant, n, age) ==
    IF variant = "lib" THEN NumDays(age) >= n ELSE NumDays(age) > n

\* The entries a complete scan removes at time `now`.
Expirable(cfg, dir, now) ==
    IF cfg.delete.some
    THEN {f \in dir : Outdated(cfg.variant, cfg.delete.n, now - f.created)}
    ELSE {}

\* delete_log_file / delete_log.  A scan that meets no error removes every
\* expirable entry; one that meets an error (read_dir, metadata, created,
\* remove_file) returns at once, having removed the expirable entries it
\* had come to before, named by `removed`.
DeleteLog(cfg, dir, now, failed, removed) ==
    IF failed
    THEN {f \in dir : f.name \notin removed}
    ELSE dir \ Expirable(cfg, dir, now)

\* What the environment does to one step of the consumer: which writes,
\* opens and scans fail.
Faults(cfg, dir, now) ==
    [stdout : BOOLEAN, open : BOOLEAN, write : BOOLEAN, scan : {FALSE},
     removed : {{}}]
    \cup [stdout : BOOLEAN, open : BOOLEAN, write : BOOLEAN, scan : {TRUE},
          removed : SUBSET {f.name : f \in Expirable(cfg, dir, now)}]

\* How many things go wrong in one step.
FaultCount(env) ==
    Cardinality({k \in {"stdout", "open", "write", "scan"} : env[k]})

NoFaults == [stdout |-> FALSE, open |-> FALSE, write |-> FALSE, scan |-> FALSE,
             removed |-> {}]

NoFile == [open |-> FALSE]

Handle(f) == [open |-> TRUE, name |-> f.name, created |-> f.created]

\* File::options().create(true).append(true).open(path.join(name))
OpenAppend(dir, name, now) ==
    IF \E f \in dir : f.name = name
    THEN [disk |-> dir, file |-> Handle(CHOOSE f \in dir : f.name = name)]
    ELSE LET f == [name |-> name, created |-> now, lines |-> <<>>] IN
         [disk |-> dir \cup {f}, file |-> Handle(f)]

\* update_log_file (library): scan, then create_dir_all and open, each with
\* expect.  create_log_file (application): create_dir_all and open only.
UpdateLogFile(cfg, dir, time, now, env) ==
    LET scanned == IF cfg.variant = "lib"
                   THEN DeleteLog(cfg, dir, now, env.scan, env.removed)
                   ELSE dir
    IN  IF env.open
        THEN [panic |-> TRUE, disk |-> scanned, file |-> NoFile]
        ELSE [panic |-> FALSE] @@ OpenAppend(scanned, FileName(time), now)

\* One line of a record: LogMsg::write (library), stdout / file_out
\* (application).  The library's file line carries the start time, every
\* other line the end time.
\* (end - begin).to_std().unwrap_or_default() in the library: zero for a
\* negative difference.  (end - begin).num_milliseconds() in the
\* application: the difference as it is.
Elapsed(variant, m) ==
    IF variant = "lib" /\ m.end < m.begin THEN 0 ELSE m.end - m.begin

Line(variant, m, isFile) ==
    [ts |-> IF variant = "lib" /\ isFile THEN m.begin ELSE m.end,
     status |-> m.status, elapsed |-> Elapsed(variant, m),
     ip |-> m.ip, method |-> m.method, path |-> m.path]

\* file.write_all / writeln!(file): the line goes to the file the handle
\* was opened on, if the directory still has it.
AppendLine(dir, h, line) ==
    {IF f.name = h.name /\ f.created = h.created
     THEN [f EXCEPT !.lines = Append(@, line)] ELSE f : f \in dir}

\* What the consumer did with one record (LogTake adds when).
Report(m, soTried, soFailed, fTried, fFailed, opFailed, scFailed, gone) ==
    [rec |-> m, stdoutTried |-> soTried, stdoutFailed |-> soFailed,
     fileTried |-> fTried, fileFailed |-> fFailed, openFailed |-> opFailed,
     scanFailed |-> scFailed, removed |-> gone]

NoReport == [rec |-> [kind |-> "none"]]

\* The files of `dir` missing from `after`, as name and age.
Gone(dir, after, now) ==
    {[name |-> f.name, age |-> now - f.created] :
        f \in {g \in dir : \A h \in after : h.name # g.name \/ h.created # g.created}}

\* The state the consumer leaves behind.
Consumed(alive, time, file, dir, o, report) ==
    [alive |-> alive, time |-> time, file |-> file, disk |-> dir, out |-> o,
     report |-> report]

\* (RotateForward: switch files only for a later date.)
RotateForward(cfg, lg, dir, m, now, env) ==
    IF DateOf(lg.time) < DateOf(m.begin)
    THEN [rotated |-> TRUE, time |-> m.begin]
         @@ UpdateLogFile(cfg, dir, m.begin, now, env)
    ELSE [rotated |-> FALSE, time |-> lg.time, panic |-> FALSE, disk |-> dir,
          file |-> lg.file]

\* The file branch of both consumers before the write: switch files when
\* the record's start date is not the date of `time`.
Rotate(cfg, lg, dir, m, now, env) ==
    IF DateOf(lg.time) # DateOf(m.begin)
    THEN [rotated |-> TRUE, time |-> m.begin]
         @@ UpdateLogFile(cfg, dir, m.begin, now, env)
    ELSE [rotated |-> FALSE, time |-> lg.time, panic |-> FALSE, disk |-> dir,
          file |-> lg.file]

\* The body of `for msg in rx` of the library's consumer thread.
ConsumeLib(cfg, lg, dir, o, m, now, env) ==
    LET soFailed == cfg.stdout /\ env.stdout
        o1 == IF cfg.stdout /\ ~env.stdout
              THEN Append(o, Line("lib", m, FALSE)) ELSE o
        up == Rotate(cfg, lg, dir, m, now, env)
        scFailed == up.rotated /\ cfg.delete.some /\ env.scan
    IN  IF ~lg.file.open
        THEN Consumed(TRUE, lg.time, lg.file, dir, o1,
                      Report(m, cfg.stdout, soFailed, FALSE, FALSE, FALSE, FALSE, {}))
        ELSE IF up.panic
        THEN Consumed(FALSE, up.time, NoFile, up.disk, o1,
                      Report(m, cfg.stdout, soFailed, FALSE, FALSE, TRUE, scFailed,
                             Gone(dir, up.disk, now)))
        ELSE Consumed(TRUE, up.time, up.file,
                      IF env.write THEN up.disk
                      ELSE AppendLine(up.disk, up.file, Line("lib", m, TRUE)),
                      o1,
                      Report(m, cfg.stdout, soFailed, TRUE, env.write, FALSE, scFailed,
                             Gone(dir, up.disk, now)))

\* The body of `while let Some(msg) = rx.recv().await` of the application's
\* consumer task.  println! panics when the write to stdout fails.
ConsumeSrc(cfg, lg, dir, o, m, now, env) ==
    LET soFailed == cfg.stdout /\ env.stdout
        o1 == IF cfg.stdout THEN Append(o, Line("src", m, FALSE)) ELSE o
        up == Rotate(cfg, lg, dir, m, now, env)
        written == IF env.write THEN up.disk
                   ELSE AppendLine(up.disk, up.file, Line("src", m, TRUE))
        scanned == DeleteLog(cfg, written, now, env.scan, env.removed)
        scFailed == cfg.delete.some /\ env.scan
    IN  IF soFailed
        THEN Consumed(FALSE, lg.time, NoFile, dir, o,
                      Report(m, TRUE, TRUE, FALSE, FALSE, FALSE, FALSE, {}))
        ELSE IF ~lg.file.open
        THEN Consumed(TRUE, lg.time, lg.file, dir, o1,
                      Report(m, cfg.stdout, FALSE, FALSE, FALSE, FALSE, FALSE, {}))
        ELSE IF up.panic
        THEN Consumed(FALSE, up.time, NoFile, up.disk, o1,
                      Report(m, cfg.stdout, FALSE, FALSE, FALSE, TRUE, FALSE, {}))
        ELSE IF env.write /\ env.stdout
        THEN Consumed(FALSE, up.time, NoFile, up.disk, o1,
                      Report(m, cfg.stdout, TRUE, TRUE, TRUE, FALSE, FALSE, {}))
        ELSE Consumed(TRUE, up.time, up.file, scanned, o1,
                      Report(m, cfg.stdout, FALSE, TRUE, env.write, FALSE, scFailed,
                             Gone(written, scanned, now)))

Consume(cfg, lg, dir, o, m, now, env) ==
    IF cfg.variant = "lib"
    THEN ConsumeLib(cfg, lg, dir, o, m, now, env)
    ELSE ConsumeSrc(cfg, lg, dir, o, m, now, env)

(***************************************************************************)
(* The producer: LoggerService::call, one future per request.              *)
(***************************************************************************)
Methods == {"GET", "POST"}

\* Requests are numbered in the order they arrive; each comes from its own
\* peer and asks for its own path.
IpOf(r) == r

PathOf(r) == [i \in 1..r |-> "a"]

\* What the inner service's future resolves to: a response, with or
\* without a Location header, or the inner service's error.
LogResponse(status, hasLoc, loc) ==
    [kind |-> "response", status |-> status, hasLoc |-> hasLoc, loc |-> loc]

LogDownResults ==
    {LogResponse(200, FALSE, <<>>), LogResponse(302, TRUE, <<"b">>),
     [kind |-> "error"]}

IdleLog ==
    [pc |-> "idle", begin |-> 0, method |-> "GET", conn |-> TRUE,
     innerCalls |-> 0,
     down |-> NoOutcome, msg |-> NoOutcome, send |-> "none",
     outcome |-> NoOutcome]

\* No LoggerService has been made for the request yet.
NoLayer == [IdleLog EXCEPT !.pc = "nolayer"]

\* Layer::layer: a LoggerService around the inner service, holding a clone
\* of the sender.  The router makes one for each request it serves.
\* (LogLayerSpawn: every layer starts a consumer of its own.)
LogLayerSpawn(r) ==
    /\ lreq[r].pc = "nolayer"
    /\ \A q \in Reqs : q < r => lreq[q].pc # "nolayer"
    /\ lreq' = [lreq EXCEPT ![r] = IdleLog]
    /\ logger' = [logger EXCEPT !.spawned = @ + 1]
    /\ UNCHANGED <<logCfg, chan, disk, stdout, lhist, clock, ticks>>

LogLayer(r) ==
    /\ lreq[r].pc = "nolayer"
    /\ \A q \in Reqs : q < r => lreq[q].pc # "nolayer"
    /\ lreq' = [lreq EXCEPT ![r] = IdleLog]
    /\ UNCHANGED <<logCfg, logger, chan, disk, stdout, lhist, clock, ticks>>

\* LogMsg { begin, end: Local::now(), status, ip, method, path }
LogMsg(r, st, res, now) ==
    [begin |-> st.begin, end |-> now, status |-> res.status, ip |-> IpOf(r),
     method |-> st.method,
     path |-> IF res.hasLoc THEN PathOf(r) \o <<" -> ">> \o res.loc
              ELSE PathOf(r)]

\* call, up to the boxed future: sample begin, read method, ip and path,
\* call the inner service.  Without ConnectInfo the call panics.
\* (LogCallReject: without ConnectInfo the request is answered with 400.)
LogCallReject(r, method, conn) ==
    /\ lreq[r].pc = "idle"
    /\ \A q \in Reqs : q < r => lreq[q].pc \notin {"nolayer", "idle"}
    /\ lreq' = [lreq EXCEPT ![r] =
          IF conn
          THEN [@ EXCEPT !.pc = "downstream", !.begin = clock,
                         !.method = method, !.innerCalls = 1]
          ELSE [@ EXCEPT !.pc = "done", !.begin = clock, !.method = method,
                         !.conn = FALSE,
                         !.outcome = LogResponse(400, FALSE, <<>>)]]
    /\ UNCHANGED <<logCfg, logger, chan, disk, stdout, lhist, clock, ticks>>

LogCall(r, method, conn) ==
    /\ lreq[r].pc = "idle"
    /\ \A q \in Reqs : q < r => lreq[q].pc \notin {"nolayer", "idle"}
    /\ lreq' = [lreq EXCEPT ![r] =
          IF conn
          THEN [@ EXCEPT !.pc = "downstream", !.begin = clock,
                         !.method = method, !.innerCalls = 1]
          ELSE [@ EXCEPT !.pc = "panicked", !.begin = clock, !.method = method,
                         !.conn = FALSE]]
    /\ UNCHANGED <<logCfg, logger, chan, disk, stdout, lhist, clock, ticks>>

\* future.await? and the building of the record.  A panic of the inner
\* future unwinds through this one.
LogRespond(r, res) ==
    /\ lreq[r].pc = "downstream"
    /\ lreq' = [lreq EXCEPT ![r] =
          IF res.kind = "error"
          THEN [@ EXCEPT !.pc = "done", !.down = res, !.outcome = res]
          ELSE IF res.kind = "panic"
          THEN [@ EXCEPT !.pc = "panicked", !.down = res]
          ELSE [@ EXCEPT !.pc = "send", !.down = res,
                         !.msg = LogMsg(r, lreq[r], res, clock)]]
    /\ UNCHANGED <<logCfg, logger, chan, disk, stdout, lhist, clock, ticks>>

\* sender.send(msg), its error reported and dropped, then Ok(response).
\* (LogSendOrFail: a failed send fails the request.
\*  LogSendBounded: a send that needs room in the channel.)
LogSendOrFail(r) ==
    /\ lreq[r].pc = "send"
    /\ lreq' = [lreq EXCEPT ![r] =
          [@ EXCEPT !.pc = "done",
                    !.send = IF logger.alive THEN "ok" ELSE "failed",
                    !.outcome = IF logger.alive THEN lreq[r].down
                                ELSE [kind |-> "error"]]]
    /\ chan' = IF logger.alive THEN Append(chan, lreq[r].msg) ELSE chan
    /\ lhist' = IF logger.alive
                THEN [lhist EXCEPT !.sent = Append(@, lreq[r].msg)] ELSE lhist
    /\ UNCHANGED <<logCfg, logger, disk, stdout, clock, ticks>>

LogSendBounded(r) ==
    /\ lreq[r].pc = "send"
    /\ Len(chan) < 1
    /\ lreq' = [lreq EXCEPT ![r] =
          [@ EXCEPT !.pc = "done",
                    !.send = IF logger.alive THEN "ok" ELSE "failed",
                    !.outcome = lreq[r].down]]
    /\ chan' = IF logger.alive THEN Append(chan, lreq[r].msg) ELSE chan
    /\ lhist' = IF logger.alive
                THEN [lhist EXCEPT !.sent = Append(@, lreq[r].msg)] ELSE lhist
    /\ UNCHANGED <<logCfg, logger, disk, stdout, clock, ticks>>

LogSend(r) ==
    /\ lreq[r].pc = "send"
    /\ lreq' = [lreq EXCEPT ![r] =
          [@ EXCEPT !.pc = "done",
                    !.send = IF logger.alive THEN "ok" ELSE "failed",
                    !.outcome = lreq[r].down]]
    /\ chan' = IF logger.alive THEN Append(chan, lreq[r].msg) ELSE chan
    /\ lhist' = IF logger.alive
                THEN [lhist EXCEPT !.sent = Append(@, lreq[r].msg)] ELSE lhist
    /\ UNCHANGED <<logCfg, logger, disk, stdout, clock, ticks>>

\* The transport drops the future while it waits for the inner service.
\* (LogDropPurge: dropping the future empties the channel.)
LogDropPurge(r) ==
    /\ lreq[r].pc = "downstream"
    /\ lreq' = [lreq EXCEPT ![r] = [@ EXCEPT !.pc = "dropped"]]
    /\ chan' = <<>>
    /\ UNCHANGED <<logCfg, logger, disk, stdout, lhist, clock, ticks>>

LogDrop(r) ==
    /\ lreq[r].pc = "downstream"
    /\ lreq' = [lreq EXCEPT ![r] = [@ EXCEPT !.pc = "dropped"]]
    /\ UNCHANGED <<logCfg, logger, chan, disk, stdout, lhist, clock, ticks>>

(***************************************************************************)
(* The consumer and the environment.                                       *)
(***************************************************************************)
\* rx.recv() / the iterator of rx: the oldest record of the channel.
\* (RecvNewest: the newest one.)
RecvNewest(q) == [msg |-> q[Len(q)], rest |-> SubSeq(q, 1, Len(q) - 1)]

Recv(q) == [msg |-> Head(q), rest |-> Tail(q)]

\* One turn of the consumer's loop on the record it receives.  When the
\* consumer panics the receiver goes with it.
LogTake(env) ==
    /\ logger.alive
    /\ chan # <<>>
    /\ LET rx == Recv(chan)
           c == Consume(logCfg, logger, disk, stdout, rx.msg, clock, env) IN
       /\ logger' = [alive |-> c.alive, time |-> c.time, file |-> c.file,
                     spawned |-> logger.spawned, run |-> logger.run]
       /\ disk' = c.disk
       /\ stdout' = c.out
       /\ chan' = IF c.alive THEN rx.rest ELSE <<>>
       /\ lhist' = [lhist EXCEPT !.taken = Append(@, rx.msg),
                                 !.last = c.report @@ [at |-> clock],
                                 !.faults = @ + FaultCount(env)]
    /\ UNCHANGED <<logCfg, lreq, clock, ticks>>

HalfDay == DaySeconds \div 2

\* A file left in the log directory by an earlier run.
OldFile ==
    [name |-> FileName(0 - DaySeconds - HalfDay),
     created |-> 0 - DaySeconds - HalfDay, lines |-> <<>>]

\* Logger::new at time 0, having met no panic: `time`, the log file when
\* file logging is on, the channel, the consumer started.
LogNew(cfg, dir, env) ==
    LET up == UpdateLogFile(cfg, dir, 0, 0, env) IN
    /\ logCfg = cfg
    /\ logger = [alive |-> TRUE, time |-> 0,
                 file |-> IF cfg.file THEN up.file ELSE NoFile,
                 spawned |-> 1, run |-> "open"]
    /\ disk = IF cfg.file THEN up.disk ELSE dir
    /\ chan = <<>>
    /\ stdout = <<>>
    /\ lreq = [r \in Reqs |-> NoLayer]
    /\ lhist = [sent |-> <<>>, taken |-> <<>>, last |-> NoReport,
                faults |-> FaultCount(env)]

LogInit ==
    \E cfg \in LogCfgs :
        \E dir \in IF cfg.delete.some THEN {{}, {OldFile}} ELSE {{}} :
            \E env \in Faults(cfg, dir, 0) :
                /\ ~env.stdout /\ ~env.open /\ ~env.write
                /\ env.scan => cfg.variant = "lib" /\ cfg.delete.some
                /\ FaultCount(env) <= MaxFaults
                /\ LogNew(cfg, dir, env)

\* The sidecar's variables while no logger is modelled.
LogIdle ==
    LogNew([variant |-> "lib", stdout |-> TRUE, file |-> FALSE,
            delete |-> NoDelete], {}, NoFaults)

LogFrame == UNCHANGED <<pipe, gateCfg, gate, issued, codec, cmp, IceptVars, ToolVars>>

LogMount == \E r \in Reqs : LogLayer(r) /\ LogFrame

LogStart == \E r \in Reqs, method \in Methods, conn \in BOOLEAN :
    LogCall(r, method, conn) /\ LogFrame

LogDownstream == \E r \in Reqs, res \in LogDownResults :
    LogRespond(r, res) /\ LogFrame

LogEnqueue == \E r \in Reqs : LogSend(r) /\ LogFrame

LogCancel == \E r \in Reqs : LogDrop(r) /\ LogFrame

LogConsume == \E env \in Faults(logCfg, disk, clock) :
    /\ lhist.faults + FaultCount(env) <= MaxFaults
    /\ LogTake(env)
    /\ LogFrame

LogAdvance ==
    /\ ticks < MaxDays
    /\ clock' = clock + DaySeconds
    /\ ticks' = ticks + 1
    /\ UNCHANGED LogVars
    /\ LogFrame

LogNext ==
    \/ LogMount
    \/ LogStart
    \/ LogDownstream
    \/ LogEnqueue
    \/ LogCancel
    \/ LogConsume
    \/ LogAdvance

\* The server stops: the router with its Logger and every LoggerService is
\* dropped once no request is in flight, and with them the last sender.
LogClose ==
    /\ logger.run = "open"
    /\ \A r \in Reqs : lreq[r].pc \in {"done", "dropped", "panicked"}
    /\ logger' = [logger EXCEPT !.run = "closed"]
    /\ UNCHANGED <<logCfg, lreq, chan, disk, stdout, lhist, clock, ticks>>
    /\ LogFrame

\* The consumer's loop ends: `for msg in rx` / `rx.recv().await` give None
\* once every sender is gone and the channel is empty.
LogEnd ==
    /\ logger.alive
    /\ logger.run = "closed"
    /\ chan = <<>>
    /\ logger' = [logger EXCEPT !.run = "ended"]
    /\ UNCHANGED <<logCfg, lreq, chan, disk, stdout, lhist, clock, ticks>>
    /\ LogFrame

DrainNext ==
    \/ LogMount
    \/ LogStart
    \/ LogDownstream
    \/ LogEnqueue
    \/ LogCancel
    \/ LogConsume
    \/ LogAdvance
    \/ LogClose
    \/ LogEnd

\* Local::now() reads the wall clock, which the system can set back (a
\* time-server correction): here by one second, once within a day.
LogStepBack ==
    /\ clock % DaySeconds = 0
    /\ clock' = clock - 1
    /\ UNCHANGED ticks
    /\ UNCHANGED LogVars
    /\ LogFrame

SkewNext ==
    \/ LogMount
    \/ LogStart
    \/ LogDownstream
    \/ LogEnqueue
    \/ LogCancel
    \/ LogConsume
    \/ LogAdvance
    \/ LogStepBack

(***************************************************************************)
(* The Logger mounted outside an interceptor or the gate, as the router     *)
(* mounts it (server/src/router/mod.rs): what the Logger awaits is what    *)
(* the layer inside it resolves to.                                        *)
(***************************************************************************)
\* The inner layer passed the request on: its result is the handler's.
Passed(res) == res @@ [rejected |-> FALSE]

\* The inner layer rejected the request: Ok(err.into_response()) in
\* InterceptorService::call, the Response made by auth_token in the gate.
Rejection(res) ==
    LET out == IntoResponse(res) IN
    IF out.kind = "panic"
    THEN [kind |-> "panic", rejected |-> TRUE]
    ELSE [kind |-> "response", status |-> out.status, hasLoc |-> FALSE,
          loc |-> <<>>, rejected |-> TRUE]

\* The rejections of the interceptors and the gate's 401.
InnerRejections == Rejections \cup {Res(401, "no token")}

InnerResults ==
    {Passed(res) : res \in LogDownResults}
        \cup {Rejection(res) : res \in InnerRejections}

LogInner == \E r \in Reqs, res \in InnerResults :
    LogRespond(r, res) /\ LogFrame

\* A logger with no retention window, started on an empty directory.
PlainInit ==
    \E cfg \in {c \in LogCfgs : ~c.delete.some} : LogNew(cfg, {}, NoFaults)

MountedNext ==
    \/ LogMount
    \/ LogStart
    \/ LogInner
    \/ LogEnqueue
    \/ LogCancel
    \/ LogConsume
    \/ LogAdvance

(***************************************************************************)
(* The concrete interceptors: BlackIp (interceptor/blacklist.rs), Download  *)
(* (interceptor/download.rs) and Html404 (interceptor/html_404.rs), each    *)
(* run by InterceptorService::call.                                         *)
(***************************************************************************)
\* A path is a sequence of pieces: a separator, a dot, or letters.
PathTokens == {"/", ".", "a", "html", "HtMl", "htm"}

Paths == UNION {[1..n -> PathTokens] : n \in 0..MaxLen}

\* The piece of the path after its last separator, and what is before it.
LastSegment(path) ==
    LET seps == {i \in 1..Len(path) : path[i] = "/"}
        cut == IF seps = {} THEN 0 ELSE CHOOSE i \in seps : \A j \in seps : j <= i
    IN [seg |-> SubSeq(path, cut + 1, Len(path)),
        rest |-> SubSeq(path, 1, cut - 1)]

\* Path::file_name: the last component if it is a normal one; empty
\* components and `.` are skipped from the back, `..` is not a file name.
RECURSIVE PathFileName(_)
PathFileName(path) ==
    IF path = <<>> THEN [some |-> FALSE, name |-> <<>>]
    ELSE LET l == LastSegment(path) IN
         IF l.seg = <<>> \/ l.seg = <<".">> THEN PathFileName(l.rest)
         ELSE IF l.seg = <<".", ".">> THEN [some |-> FALSE, name |-> <<>>]
         ELSE [some |-> TRUE, name |-> l.seg]

\* Path::extension: what follows the last dot of the file name; none when
\* there is no file name, no dot, or the only dot is the first character.
Extension(path) ==
    LET f == PathFileName(path)
        dots == {i \in 1..Len(f.name) : f.name[i] = "."}
        last == IF dots = {} THEN 0 ELSE CHOOSE i \in dots : \A j \in dots : j <= i
    IN IF ~f.some \/ last <= 1 THEN [some |-> FALSE, ext |-> <<>>]
       ELSE [some |-> TRUE, ext |-> SubSeq(f.name, last + 1, Len(f.name))]

\* to_ascii_lowercase of a piece.
Lower(tok) == IF tok = "HtMl" THEN "html" ELSE tok

\* eq_ignore_ascii_case("html") of an extension.
EqIgnoreCaseHtml(ext) == Len(ext) = 1 /\ Lower(ext[1]) = "html"

\* The condition of the assert! in Html404::new.
\* (IsHtmlAny: any extension accepted.)
IsHtmlAny(path) == Extension(path).some

IsHtml(path) ==
    LET e == Extension(path) IN
    IF e.some THEN EqIgnoreCaseHtml(e.ext) ELSE FALSE

\* The comparisons a BlackIp is built with.
BlockLists ==
    {StrPred("str", <<"a">>),
     ListPred("array", << <<"a", "b">>, <<"b", "b">> >>),
     FnPred("only_a")}

NoHandler == FnPred("lib_always_false")

\* The interceptors a router is given.
IceptCfgs ==
    {[kind |-> "BlackIp", handler |-> h, path |-> <<>>] : h \in BlockLists}
    \cup {[kind |-> "Download", handler |-> NoHandler, path |-> <<>>]}
    \cup {[kind |-> "Html404", handler |-> NoHandler, path |-> p] : p \in Paths}

\* The request: its ConnectInfo extension, if any, with the address as
\* `to_string` prints it, and its query string as a list of decoded pairs.
NoConn == [has |-> FALSE, ip |-> <<>>]
Conn(ip) == [has |-> TRUE, ip |-> ip]

Conns == {NoConn} \cup {Conn(ip) : ip \in {s \in Strs : Len(s) \in 1..2}}

Pairs == [k : {"type", "x"}, v : {"download", "Download"}]

NoQuery == [some |-> FALSE, pairs |-> <<>>]

Queries ==
    {NoQuery} \cup {[some |-> TRUE, pairs |-> q] :
                        q \in UNION {[1..n -> Pairs] : n \in 0..MaxParams}}

\* `?type=download`
AskQuery == [some |-> TRUE, pairs |-> <<[k |-> "type", v |-> "download"]>>]

\* The requests an interceptor is tried on.  BlackIp reads only the
\* extensions, Download only the query string, Html404 nothing of the
\* request; the part an interceptor does not read is drawn from two values.
IceptReqs(cfg) ==
    CASE cfg.kind = "BlackIp" -> [conn : Conns, query : {NoQuery, AskQuery}]
      [] cfg.kind = "Download" -> [conn : {NoConn, Conn(<<"a">>)}, query : Queries]
      [] cfg.kind = "Html404" ->
            [conn : {NoConn, Conn(<<"a">>)}, query : {NoQuery, AskQuery}]

\* serde_urlencoded::from_str::<Type>: `Type` is an internally tagged enum
\* (tag = "type", variants in lowercase) with the one unit variant Download.
\* The tag must occur once and name the variant; other pairs are ignored.
\* (FromStrLoose: the first `type` pair taken, its value compared without case.)
FromStrLoose(pairs) ==
    LET tags == {i \in 1..Len(pairs) : pairs[i].k = "type"} IN
    IF tags = {} THEN [ok |-> FALSE, err |-> "missing field"]
    ELSE LET i == CHOOSE i \in tags : \A j \in tags : i <= j IN
         IF pairs[i].v \in {"download", "Download"}
         THEN [ok |-> TRUE, data |-> "Download"]
         ELSE [ok |-> FALSE, err |-> "unknown variant"]

FromStr(pairs) ==
    LET tags == {i \in 1..Len(pairs) : pairs[i].k = "type"} IN
    IF tags = {} THEN [ok |-> FALSE, err |-> "missing field"]
    ELSE IF Cardinality(tags) > 1 THEN [ok |-> FALSE, err |-> "duplicate field"]
    ELSE LET i == CHOOSE i \in tags : TRUE IN
         IF pairs[i].v = "download"
         THEN [ok |-> TRUE, data |-> "Download"]
         ELSE [ok |-> FALSE, err |-> "unknown variant"]

\* tools::parse_query: uri.query().unwrap_or_default() through from_str,
\* an error turned into a 422 rejection.
ParseQuery(req) ==
    LET r == FromStr(IF req.query.some THEN req.query.pairs ELSE <<>>) IN
    IF r.ok THEN r ELSE [ok |-> FALSE, err |-> Res(422, r.err)]

\* BlackIp::before.
\* (BlackIpBeforeOpen: a request without ConnectInfo let through.)
BlackIpBeforeOpen(handler, req) ==
    IF req.conn.has /\ Compare(handler, req.conn.ip)
    THEN [ok |-> FALSE, err |-> Res(403, "blacklisted ip")]
    ELSE [ok |-> TRUE, ctx |-> "unit"]

BlackIpBefore(handler, req) ==
    IF ~req.conn.has
    THEN [ok |-> FALSE, err |-> Res(400, "no connection ip")]
    ELSE IF Compare(handler, req.conn.ip)
    THEN [ok |-> FALSE, err |-> Res(403, "blacklisted ip")]
    ELSE [ok |-> TRUE, ctx |-> "unit"]

\* Download::before.
DownloadBefore(req) ==
    LET r == ParseQuery(req) IN
    [ok |-> TRUE,
     ctx |-> IF r.ok THEN (IF r.data = "Download" THEN "true" ELSE "false")
             ELSE "false"]

\* Html404::before.
Html404Before(req) == [ok |-> TRUE, ctx |-> "unit"]

\* A response of the downstream service, with the headers the
\* interceptors write; length -1 stands for no Content-Length header.
Served(status, disposition, body) ==
    [kind |-> "response", status |-> status, ctype |-> "text/plain",
     disposition |-> disposition, length |-> Len(body), body |-> body]

IceptDownResults ==
    {Served(200, "none", <<"ok">>), Served(200, "inline", <<"ok">>),
     Served(404, "none", <<"not", "found">>),
     Served(404, "inline", <<"not", "found">>), [kind |-> "error"]}

\* The default Intercept::after: nothing.
DefaultAfter(ctx, resp) == resp

\* Download::after.
DownloadAfter(ctx, resp) ==
    IF ctx = "true"
    THEN [resp EXCEPT !.ctype = "application/octet-stream",
                      !.disposition = "attachment"]
    ELSE resp

\* The 404 page as `after` finds it: File::open may fail, metadata may
\* fail or report a size the file no longer has, read_to_end may fail.
FileBodies == UNION {[1..n -> {"p"}] : n \in 0..MaxBody}

FsMissing == [open |-> FALSE, read |-> FALSE, meta |-> FALSE, size |-> 0, contents |-> <<>>]

Files ==
    {FsMissing}
    \cup {[open |-> TRUE, read |-> FALSE, meta |-> TRUE, size |-> Len(c), contents |-> c] :
            c \in FileBodies}
    \cup {[open |-> TRUE, read |-> TRUE, meta |-> m, size |-> Len(c) + d, contents |-> c] :
            c \in FileBodies, m \in BOOLEAN, d \in {0, 1}}

\* Vec::with_capacity(metadata().map(len).unwrap_or(1024)).
DefaultCapacity == 1024

Capacity(fs) == IF fs.meta THEN fs.size ELSE DefaultCapacity

\* Html404::after.
\* (Html404AfterMeta: Content-Length taken from the metadata.)
Html404AfterMeta(fs, resp) ==
    IF resp.status = 404 /\ fs.open /\ fs.read
    THEN [resp EXCEPT !.length = Capacity(fs), !.ctype = "text/html",
                      !.body = fs.contents]
    ELSE resp

\* (Html404AfterOk: the page served as a 200 attachment-free response.)
Html404AfterOk(fs, resp) ==
    IF resp.status = 404 /\ fs.open /\ fs.read
    THEN [resp EXCEPT !.status = 200, !.length = Len(fs.contents),
                      !.ctype = "text/html", !.disposition = "none",
                      !.body = fs.contents]
    ELSE resp

Html404After(fs, resp) ==
    IF resp.status = 404
    THEN IF fs.open
         THEN LET buf == [cap |-> Capacity(fs), bytes |-> fs.contents] IN
              IF fs.read
              THEN [resp EXCEPT !.length = Len(buf.bytes), !.ctype = "text/html",
                                !.body = buf.bytes]
              ELSE resp
         ELSE resp
    ELSE resp

\* The hooks of the interceptor `cfg`.
Before(cfg, req) ==
    CASE cfg.kind = "BlackIp" -> BlackIpBefore(cfg.handler, req)
      [] cfg.kind = "Download" -> DownloadBefore(req)
      [] cfg.kind = "Html404" -> Html404Before(req)

After(cfg, ctx, fs, resp) ==
    CASE cfg.kind = "BlackIp" -> DefaultAfter(ctx, resp)
      [] cfg.kind = "Download" -> DownloadAfter(ctx, resp)
      [] cfg.kind = "Html404" -> Html404After(fs, resp)

\* The files an `after` hook may meet: only Html404 looks at one.
FilesFor(cfg) == IF cfg.kind = "Html404" THEN Files ELSE {FsMissing}

IdleIcept(cfg) ==
    [pc |-> "ready", cfg |-> cfg, req |-> [conn |-> NoConn, query |-> NoQuery],
     before |-> NoOutcome, ctx |-> "none", downCalls |-> 0, down |-> NoOutcome,
     afterCalls |-> 0, fs |-> FsMissing, outcome |-> NoOutcome, served |-> 0]

\* BlackIp::interceptor, Download::interceptor and Html404::new: the last
\* panics on its assert! and then there is no interceptor to mount.
IceptNew(cfg) ==
    IF cfg.kind = "Html404"
    THEN IF IsHtml(cfg.path) THEN IdleIcept(cfg)
         ELSE [IdleIcept(cfg) EXCEPT !.pc = "panicked"]
    ELSE IdleIcept(cfg)

IceptInit == \E cfg \in IceptCfgs : icept = IceptNew(cfg)

\* call(): clone the interceptor, box the future.
IceptCall(req) ==
    /\ icept.pc = "ready"
    /\ icept' = [IdleIcept(icept.cfg) EXCEPT !.pc = "before", !.req = req,
                                             !.served = icept.served]

\* interceptor.before(&mut req).await and the match.
IceptBefore ==
    /\ icept.pc = "before"
    /\ LET v == Before(icept.cfg, icept.req) IN
       IF v.ok
       THEN icept' = [icept EXCEPT !.pc = "downstream", !.before = v,
                                   !.ctx = v.ctx, !.downCalls = @ + 1]
       ELSE icept' = [icept EXCEPT !.pc = "done", !.before = v,
                                   !.outcome = IntoResponse(v.err),
                                   !.served = 1]

\* ready_inner.call(req).await?
IceptDownstream(result) ==
    /\ icept.pc = "downstream"
    /\ IF result.kind = "error"
       THEN icept' = [icept EXCEPT !.pc = "done", !.down = result,
                                   !.outcome = result, !.served = 1]
       ELSE icept' = [icept EXCEPT !.pc = "after", !.down = result]

\* interceptor.after(ctx, &mut response).await; Ok(response)
IceptAfter(fs) ==
    /\ icept.pc = "after"
    /\ icept' = [icept EXCEPT
            !.pc = "done",
            !.afterCalls = @ + 1,
            !.fs = fs,
            !.outcome = After(icept.cfg, icept.ctx, fs, icept.down),
            !.served = 1]

\* The response has been sent; the adapter takes the next request.
IceptReset ==
    /\ icept.pc = "done"
    /\ icept' = [IdleIcept(icept.cfg) EXCEPT !.served = icept.served]

IceptFrame ==
    UNCHANGED <<pipe, gateCfg, gate, clock, ticks, issued, codec, cmp, LogVars, stack, ToolVars>>

IceptStart == IceptFrame /\ \E req \in IceptReqs(icept.cfg) : IceptCall(req)
IceptRunBefore == IceptFrame /\ IceptBefore
IceptRunDownstream == IceptFrame /\ \E d \in IceptDownResults : IceptDownstream(d)
IceptRunAfter == IceptFrame /\ \E fs \in FilesFor(icept.cfg) : IceptAfter(fs)
IceptNextRequest == IceptFrame /\ IceptReset

IceptNext ==
    \/ IceptStart
    \/ IceptRunBefore
    \/ IceptRunDownstream
    \/ IceptRunAfter
    \/ IceptNextRequest

(***************************************************************************)
(* tools::unit (tools/unit.rs): a byte count printed in KB, MB, GB or TB.   *)
(* A u64 is held as its digits in base 1024, least significant first, so    *)
(* that dividing by 1024.0 moves the point by one digit.                    *)
(***************************************************************************)
Base == 1024

\* A u64 has six whole digits in base 1024 and four more bits.
NumDigits == 7

\* The bits of an f64 mantissa.
Mantissa == 53

UNIT == <<"KB", "MB", "GB", "TB">>

Zero == [i \in 1..NumDigits |-> 0]

RECURSIVE BitLen(_)
BitLen(v) == IF v = 0 THEN 0 ELSE 1 + BitLen(v \div 2)

RECURSIVE Pow2(_)
Pow2(p) == IF p = 0 THEN 1 ELSE 2 * Pow2(p - 1)

\* The position of the leading digit, 0 for zero.
Top(ds) ==
    LET nz == {i \in 1..NumDigits : ds[i] # 0} IN
    IF nz = {} THEN 0 ELSE CHOOSE i \in nz : \A j \in nz : j <= i

\* Add c at digit i and carry on; the last digit keeps what is left, as
\* 2^64 has a place among the f64 values.
RECURSIVE AddCarry(_, _, _)
AddCarry(ds, i, c) ==
    IF c = 0 THEN ds
    ELSE IF i = NumDigits THEN [ds EXCEPT ![i] = @ + c]
    ELSE AddCarry([ds EXCEPT ![i] = (@ + c) % Base], i + 1, (ds[i] + c) \div Base)

\* `n as f64`: n rounded to 53 significant bits, ties to even.
AsF64(ds) ==
    LET top == Top(ds)
        bits == IF top = 0 THEN 0 ELSE 10 * (top - 1) + BitLen(ds[top])
        p == bits - Mantissa
    IN IF p <= 0 THEN ds
       ELSE LET low == ds[2] * Base + ds[1]
                q == low \div Pow2(p)
                r == low % Pow2(p)
                up == r > Pow2(p - 1) \/ (r = Pow2(p - 1) /\ q % 2 = 1)
                kept == (IF up THEN q + 1 ELSE q) * Pow2(p)
            IN AddCarry([ds EXCEPT ![1] = kept % Base,
                                   ![2] = (kept \div Base) % Base],
                        3, kept \div (Base * Base))

\* `1024.0 > n` after k divisions: no digit left of the units digit.
Below(x, k) == \A i \in (k + 2)..NumDigits : x[i] = 0

\* The whole part after k divisions.
RECURSIVE Whole(_, _, _)
Whole(x, k, i) ==
    IF i > NumDigits THEN 0 ELSE x[i] + Base * Whole(x, k, i + 1)

\* Ten times the fraction after k divisions: the whole part of the product
\* and what is left, digit by digit.
RECURSIVE Times10(_, _, _, _)
Times10(x, k, i, c) ==
    IF i > k THEN [t |-> c, rem |-> <<>>]
    ELSE LET v == 10 * x[i] + c
             rest == Times10(x, k, i + 1, v \div Base)
         IN [t |-> rest.t, rem |-> <<v % Base>> \o rest.rem]

\* format!("{n:.1}"): one decimal, the exact value rounded half to even.
Format1(x, k) ==
    LET m == Times10(x, k, 1, 0)
        lowZero == \A i \in 1..(k - 1) : m.rem[i] = 0
        above == m.rem[k] > Base \div 2 \/ (m.rem[k] = Base \div 2 /\ ~lowZero)
        tie == m.rem[k] = Base \div 2 /\ lowZero
        t == IF above \/ (tie /\ m.t % 2 = 1) THEN m.t + 1 ELSE m.t
        w == Whole(x, k, k + 1)
    IN IF t = 10 THEN [whole |-> w + 1, tenth |-> 0]
       ELSE [whole |-> w, tenth |-> t]

Printed(x, k) == Format1(x, k) @@ [unit |-> UNIT[k]]

\* The loop of unit(): divide, return at the first quotient below 1024;
\* after the loop the fourth quotient with UNIT[3].
\* (UnitLoopInclusive: `1024.0 >= n` in place of `1024.0 > n`.)
RECURSIVE UnitLoopInclusive(_, _)
UnitLoopInclusive(x, k) ==
    IF k > Len(UNIT) THEN Printed(x, Len(UNIT))
    ELSE IF Below(x, k) \/ (Below(x, k + 1) /\ x[k + 2] = 1
                              /\ \A i \in 1..(k + 1) : x[i] = 0)
    THEN Printed(x, k)
    ELSE UnitLoopInclusive(x, k + 1)

RECURSIVE UnitLoop(_, _)
UnitLoop(x, k) ==
    IF k > Len(UNIT) THEN Printed(x, Len(UNIT))
    ELSE IF Below(x, k) THEN Printed(x, k)
    ELSE UnitLoop(x, k + 1)

\* unit(n)
Unit(n) == UnitLoop(AsF64(n), 1)

\* A number from its low digits, least significant first, the rest zero.
Num(ds) == [i \in 1..NumDigits |-> IF i <= Len(ds) THEN ds[i] ELSE 0]

\* The byte counts unit is tried on: a grid of digits and the numbers of
\* the test unit_t.
GridDigits == {0, 1, 256, 1023}

TopDigits == {0, 1, 15}

UnitInputs ==
    {[i \in 1..NumDigits |-> IF i = NumDigits THEN t ELSE f[i]] :
        f \in [1..(NumDigits - 1) -> GridDigits], t \in TopDigits}
    \cup {Num(<<0, 100, 1>>), Num(<<0, 0, 0, 0, 1, 1>>), Num(<<0, 768>>),
          Num(<<205, 819, 204, 51, 0, 8>>)}

NoPrint == [whole |-> 0, tenth |-> 0, unit |-> "none"]

CalcIdle == calc = [done |-> FALSE, n |-> Zero, out |-> NoPrint]

CalcInit == calc \in {[done |-> FALSE, n |-> n, out |-> NoPrint] : n \in UnitInputs}

CalcApply(n) ==
    /\ ~calc.done
    /\ calc' = [calc EXCEPT !.done = TRUE, !.out = Unit(n)]

CalcRun ==
    /\ CalcApply(calc.n)
    /\ UNCHANGED <<pipe, gateCfg, gate, clock, ticks, issued, codec, cmp,
                   LogVars, IceptVars, form>>

CalcNext == CalcRun

(***************************************************************************)
(* Multipart forms (tools/multipart.rs): one Take behind MultiMap::parse.   *)
(***************************************************************************)
\* Range<u64>::contains
RangeContains(range, x) == range.start <= x /\ x < range.end

Range(start, end) == [start |-> start, end |-> end]

\* Take::default(): count 1..1.
DefaultCount == Range(1, 1)

\* The count ranges a Take is given with take!(T, count = a..b).
Counts == {c \in [start : 0..MaxCount, end : 0..MaxCount] : c.start <= c.end}

\* The size range of the Take, in bytes.
Limit == Range(0, 2)

\* A field of the form as extract meets it: whether `ct` accepts its
\* content type, whether value.take reads it, and its size.
Fields == [ctOk : BOOLEAN, takeOk : BOOLEAN, size : 0..2]

NoField == [ctOk |-> TRUE, takeOk |-> TRUE, size |-> 0]

\* Take { count, index: 0, .. }
TakeNew(count) ==
    [pc |-> "fields", count |-> count, index |-> 0, calls |-> 0, oks |-> 0,
     field |-> NoField, error |-> "none", verify |-> "none"]

\* Take::extract: the Take after the call and the call's result.
Extract(t, field) ==
    IF ~field.ctOk THEN [take |-> t, err |-> "content type"]
    ELSE IF ~field.takeOk THEN [take |-> t, err |-> "take"]
    ELSE IF ~RangeContains(Limit, field.size) THEN [take |-> t, err |-> "size"]
    ELSE LET u == [t EXCEPT !.index = @ + 1] IN
         IF u.index > u.count.end THEN [take |-> u, err |-> "too many"]
         ELSE [take |-> u, err |-> "none"]

\* Take::verify
Verify(t) ==
    IF t.count.start = t.count.end
    THEN IF t.index # t.count.start THEN "must have start" ELSE "none"
    ELSE IF ~RangeContains(t.count, t.index) THEN "at least start" ELSE "none"

FormIdle == form = [TakeNew(DefaultCount) EXCEPT !.pc = "none"]

FormInit == \E count \in Counts : form = TakeNew(count)

\* MultiMap::parse, one turn of its loop: the next field goes to extract;
\* an error leaves parse through `?` with a 422.
FormExtract(field) ==
    /\ form.pc = "fields"
    /\ form.calls <= MaxCount
    /\ LET x == Extract(form, field) IN
       form' = [x.take EXCEPT
            !.pc = IF x.err = "none" THEN "fields" ELSE "rejected",
            !.calls = @ + 1,
            !.oks = IF x.err = "none" THEN @ + 1 ELSE @,
            !.field = field,
            !.error = x.err]

\* MultiMap::parse after the last field: verify decides.
FormVerify ==
    /\ form.pc = "fields"
    /\ LET v == Verify(form) IN
       form' = [form EXCEPT !.pc = IF v = "none" THEN "accepted" ELSE "invalid",
                            !.verify = v]

FormFrame ==
    UNCHANGED <<pipe, gateCfg, gate, clock, ticks, issued, codec, cmp,
                LogVars, IceptVars, calc>>

FormRead == FormFrame /\ \E field \in Fields : FormExtract(field)
FormEnd == FormFrame /\ FormVerify

FormNext ==
    \/ FormRead
    \/ FormEnd

\* The tools' variables while none is modelled.
ToolsIdle == CalcIdle /\ FormIdle

(***************************************************************************)
(* Specifications.                                                         *)
(***************************************************************************)
\* The gate's variables while no gate is modelled.
GateIdle ==
    /\ gateCfg = [variant |-> "lib_jsonwebtoken", ctor |-> "default",
                  allow |-> DefaultAllow("lib_jsonwebtoken"), mounted |-> TRUE]
    /\ gate = IdleGate

\* The concrete interceptors' variable while none is modelled.
IceptIdle ==
    icept = IceptNew([kind |-> "Download", handler |-> NoHandler, path |-> <<>>])

\* The interceptor pipeline.
InitPipeline ==
    PipeInit /\ GateIdle /\ CodecInit /\ CmpIdle /\ LogIdle /\ StackInit /\ IceptIdle /\ ToolsIdle

\* Two stacked adapters.
InitStack ==
    PipeInit /\ GateIdle /\ CodecInit /\ CmpIdle /\ LogIdle /\ StackInit /\ IceptIdle /\ ToolsIdle

SpecStack == InitStack /\ [][StackNext]_vars

\* The concrete interceptors.
InitIntercept ==
    PipeInit /\ GateIdle /\ CodecInit /\ CmpIdle /\ LogIdle /\ StackInit /\ IceptInit /\ ToolsIdle

SpecIntercept == InitIntercept /\ [][IceptNext]_vars

SpecPipeline == InitPipeline /\ [][PipeNext]_vars

\* tools::unit.
InitUnit ==
    PipeInit /\ GateIdle /\ CodecInit /\ CmpIdle /\ LogIdle /\ StackInit /\ IceptIdle
        /\ CalcInit /\ FormIdle

\* A multipart form read through one Take.
InitForm ==
    PipeInit /\ GateIdle /\ CodecInit /\ CmpIdle /\ LogIdle /\ StackInit /\ IceptIdle
        /\ CalcIdle /\ FormInit

SpecForm == InitForm /\ [][FormNext]_vars

SpecUnit == InitUnit /\ [][CalcNext]_vars

\* The path predicates.
InitCompare ==
    PipeInit /\ GateIdle /\ CodecInit /\ CmpInit /\ LogIdle /\ StackInit /\ IceptIdle /\ ToolsIdle

SpecCompare == InitCompare /\ [][CmpNext]_vars

\* The claims codec.
InitCodec ==
    PipeInit /\ GateIdle /\ CodecInit /\ CmpIdle /\ LogIdle /\ StackInit /\ IceptIdle /\ ToolsIdle

SpecCodec == InitCodec /\ [][CodecNext]_vars

\* The authentication gate and the accessor.
InitGate == PipeInit /\ GateInit /\ CmpIdle /\ LogIdle /\ StackInit /\ IceptIdle /\ ToolsIdle

SpecGate == InitGate /\ [][GateNext]_vars

\* The log sidecar.
InitLogger ==
    PipeInit /\ GateIdle /\ CodecInit /\ CmpIdle /\ LogInit /\ StackInit /\ IceptIdle /\ ToolsIdle

SpecLogger == InitLogger /\ [][LogNext]_vars

\* The log sidecar outside an interceptor or the gate.
InitPlain ==
    PipeInit /\ GateIdle /\ CodecInit /\ CmpIdle /\ PlainInit /\ StackInit /\ IceptIdle /\ ToolsIdle

SpecMounted == InitPlain /\ [][MountedNext]_vars

\* The log sidecar until the server stops, its consumer scheduled fairly:
\* the consumer is a thread (library) or a spawned task (application) of
\* its own, which runs whenever it has something to do.
SpecDrain ==
    InitPlain /\ [][DrainNext]_vars /\ WF_vars(LogConsume) /\ WF_vars(LogEnd)

\* The log sidecar under a wall clock that can be set back.
SpecSkew == InitPlain /\ [][SkewNext]_vars

(***************************************************************************)
(* Properties of the interceptor pipeline (SpecPipeline).                   *)
(***************************************************************************)
Finished(r) == pipe[r].pc \in {"done", "panicked"}

\* C1: when `before` returns Err, the downstream service is never called,
\* `after` is never called, and what the call delivers is the rejection
\* converted by into_response.
C1_ShortCircuit ==
    \A r \in Reqs :
        (pipe[r].pc # "idle" /\ ~pipe[r].before.ok) =>
            /\ pipe[r].downCalls = 0
            /\ pipe[r].afterCalls = 0
            /\ pipe[r].down = NoOutcome
            /\ Finished(r) => pipe[r].outcome = IntoResponse(pipe[r].before.err)

C1_Witness ==
    \E r \in Reqs :
        /\ pipe[r].pc = "done"
        /\ ~pipe[r].before.ok
        /\ pipe[r].outcome.kind = "response"
        /\ pipe[r].outcome.status = 403

\* C2 as stated: for a finished request, `after` ran exactly once if and
\* only if `before` returned Ok, whatever downstream returned.
C2_AfterIffBeforeOk ==
    \A r \in Reqs :
        Finished(r) => (pipe[r].afterCalls = 1 <=> pipe[r].before.ok)

\* C2 amended: `after` runs at most once; for a finished request it ran
\* exactly once if and only if `before` returned Ok and downstream returned
\* a response; a downstream error leaves through `?` without `after`.
C2_AfterIffResponse ==
    \A r \in Reqs :
        /\ pipe[r].afterCalls <= 1
        /\ (pipe[r].pc # "idle" /\ ~pipe[r].before.ok) => pipe[r].afterCalls = 0
        /\ pipe[r].down.kind = "error" => pipe[r].afterCalls = 0
        /\ Finished(r) =>
              (pipe[r].afterCalls = 1
                  <=> (pipe[r].before.ok /\ pipe[r].down.kind = "response"))

C2_Witness ==
    \E r, q \in Reqs :
        /\ pipe[r].pc = "done" /\ pipe[r].before.ok
        /\ pipe[r].down.kind = "response" /\ pipe[r].afterCalls = 1
        /\ pipe[q].pc = "done" /\ pipe[q].before.ok
        /\ pipe[q].down.kind = "error" /\ pipe[q].afterCalls = 0

(***************************************************************************)
(* Properties of the authentication gate (SpecGate).                       *)
(***************************************************************************)
\* The gate's call() has returned for the request in flight.
Called == gateCfg.mounted /\ gate.pc \in {"future", "handler", "done"}

\* The predicate of the mounted gate matches the request path.
PredicateMatches ==
    IF gateCfg.variant = "src_middleware"
    THEN Allow(gateCfg.allow, gate.req.path)
    ELSE Compare(gateCfg.allow, gate.req.path)

\* The header carries no bearer token, or one that cannot decode at any time.
NeverDecodes(header) ==
    \/ header.kind # "bearer"
    \/ ~Decode(header.token, ConfigSecret, 0).ok

\* The payloads of the tokens this service issued that equal `token`.
PayloadOf(token) ==
    {i.payload : i \in {x \in issued : x.token = token /\ x.key = ConfigSecret}}

\* The claims the gate attached to the request it handed downstream.
ForwardedClaims ==
    IF gate.forwarded = NoOutcome THEN {}
    ELSE ExtGet(gate.forwarded.ext, ClaimsType(gateCfg.variant))

\* The three outcomes of the gate, read off what it did with the request.
Bypassed ==
    /\ PredicateMatches
    /\ gate.innerCalls = 1
    /\ gate.forwarded = gate.req
    /\ ForwardedClaims = {}

Verified ==
    /\ ~PredicateMatches
    /\ gate.innerCalls = 1
    /\ gate.req.header.kind = "bearer"
    /\ ForwardedClaims # {}
    /\ ForwardedClaims \subseteq PayloadOf(gate.req.header.token)

Rejected ==
    /\ gate.rejection # NoOutcome
    /\ gate.rejection.kind = "response"
    /\ gate.rejection.status = 401
    /\ gate.pc = "done" => gate.outcome = gate.rejection /\ ~gate.handlerRan

\* C25: every request the gate has taken has exactly one of the outcomes
\* Bypassed, Verified and rejected with 401; Bypassed and Verified never
\* hold together; the downstream service is called at most once.
C25_OneOutcome ==
    /\ gate.innerCalls <= 1
    /\ ~(Bypassed /\ Verified)
    /\ Called =>
          /\ Bypassed \/ Verified \/ Rejected
          /\ ~(Bypassed /\ Rejected)
          /\ ~(Verified /\ Rejected)
          /\ Bypassed <=> gate.verdict = "bypassed"
          /\ Verified <=> gate.verdict = "verified"
          /\ Rejected <=> gate.verdict = "rejected"

\* A request with a good token on a path the predicate matches has been
\* answered by the handler behind the library gate.
C25_Witness ==
    /\ Called /\ Bypassed
    /\ gateCfg.variant = "lib_middleware"
    /\ gate.req.header.kind = "bearer"
    /\ PayloadOf(gate.req.header.token) # {}
    /\ gate.pc = "done"
    /\ gate.handlerRan

\* C3: when the predicate matches, the gate forwards the request as it
\* came, with no claims in its extensions, and never rejects it, whatever
\* the Authorization header holds; in every variant.
C3_BypassForwards ==
    (Called /\ PredicateMatches) =>
        /\ gate.verdict = "bypassed"
        /\ gate.rejection = NoOutcome
        /\ gate.innerCalls = 1
        /\ gate.forwarded = Request(gate.req.path, gate.req.header, {})
        /\ gate.pc = "done" => gate.handlerRan

C3_Witness ==
    /\ Called /\ PredicateMatches
    /\ gateCfg.variant = "lib_jsonwebtoken"
    /\ gate.req.header = Bearer(Garbage)
    /\ gate.handlerRan

\* C4: when the predicate does not match and the header is missing or its
\* token fails to decode, the gate answers 401 and the downstream service
\* is never called; in every variant.
C4_RejectWithoutDownstream ==
    /\ (Called /\ ~PredicateMatches /\ NeverDecodes(gate.req.header)) =>
            gate.verdict = "rejected"
    /\ (Called /\ gate.verdict = "rejected") =>
            /\ gate.rejection.kind = "response"
            /\ gate.rejection.status = 401
            /\ gate.innerCalls = 0
            /\ gate.pc = "done" => (gate.outcome = gate.rejection /\ ~gate.handlerRan)

\* C5: when the predicate does not match and the token decodes, the payload
\* is in the extensions of the request handed to downstream, under the
\* variant's claims type, and it is the payload the token was encoded from.
C5_ClaimsForwarded ==
    /\ (Called /\ ~PredicateMatches /\ gate.req.header.kind = "bearer") =>
            (Decode(gate.req.header.token, ConfigSecret, clock).ok
                => gate.verdict = "verified")
    /\ (Called /\ gate.verdict = "verified") =>
            /\ gate.req.header.kind = "bearer"
            /\ gate.innerCalls = 1
            /\ gate.forwarded.path = gate.req.path
            /\ gate.forwarded.header = gate.req.header
            /\ Cardinality(PayloadOf(gate.req.header.token)) = 1
            /\ ExtGet(gate.forwarded.ext, ClaimsType(gateCfg.variant))
                    = PayloadOf(gate.req.header.token)

C5_Witness ==
    /\ Called /\ gate.verdict = "verified"
    /\ gate.handlerRan
    /\ ExtGet(gate.forwarded.ext, "T") = {[name |-> "bob", phone |-> "2"]}

\* C6: a gate built with JwtAuth::default() bypasses no request; in every
\* variant.
C6_DefaultVerifiesAll ==
    (Called /\ gateCfg.ctor = "default") => gate.verdict # "bypassed"

\* C8: the accessor returns the attached claims without decoding when they
\* are present; otherwise it goes through auth_token, answering 401 for a
\* missing header or an invalid token; and for a token that is valid when
\* the accessor runs it yields the token's payload, gate mounted or not.
C8_Accessor ==
    gate.handlerRan =>
        LET att == ExtGet(gate.forwarded.ext, ClaimsType(gateCfg.variant))
            h == gate.forwarded.header
        IN  /\ att # {} =>
                    /\ gate.acc.ok
                    /\ att = {gate.acc.data}
                    /\ ~gate.accDecoded
            /\ att = {} =>
                    /\ gate.accDecoded
                    /\ NeverDecodes(h) =>
                            (~gate.acc.ok /\ gate.acc.resp.status = 401
                                /\ gate.outcome = gate.acc.resp)
            /\ ~gateCfg.mounted => att = {}
            /\ (h.kind = "bearer" /\ PayloadOf(h.token) # {}
                    /\ Decode(h.token, ConfigSecret, gate.accAt).ok) =>
                    (gate.acc.ok /\ PayloadOf(h.token) = {gate.acc.data})

C8_Witness ==
    /\ gate.handlerRan
    /\ gateCfg.mounted
    /\ gateCfg.variant = "src_middleware"
    /\ gate.verdict = "verified"
    /\ gate.acc.ok
    /\ ~gate.accDecoded

C8_WitnessUnmounted ==
    /\ gate.handlerRan
    /\ ~gateCfg.mounted
    /\ gate.acc.ok
    /\ gate.accDecoded

(***************************************************************************)
(* Properties of the path predicates (SpecCompare).                        *)
(***************************************************************************)
\* uri = prefix . pat . suffix for some prefix and suffix.
HasInfix(uri, pat) ==
    \E pre \in Strs, suf \in Strs : uri = pre \o pat \o suf

\* C7 as stated: a literal matches exactly the equal path, a list exactly
\* the paths equal to a member, a function exactly where it returns true.
C7_MatchesIffEqual ==
    cmp.done => (cmp.result <=> CompareEq(cmp.pred, cmp.uri))

\* C7 amended: a literal matches exactly the paths that contain it, a list
\* exactly the paths that contain one of its members, a function exactly
\* where it returns true; in CompareStr and in Allow.
C7_MatchesIffContains ==
    cmp.done =>
        (cmp.result <=>
            CASE cmp.pred.kind = "fn" -> FnApply(cmp.pred.name, cmp.uri)
              [] cmp.pred.kind \in {"str", "arc_string"} ->
                    HasInfix(cmp.uri, cmp.pred.lit)
              [] cmp.pred.kind \in {"array", "arc_vec"} ->
                    \E m \in Members(cmp.pred.items) : HasInfix(cmp.uri, m))

C7_Witness ==
    /\ cmp.done
    /\ cmp.pred = StrPred("str", <<"a">>)
    /\ cmp.uri = <<"b", "a">>
    /\ cmp.result

(***************************************************************************)
(* Properties of the claims codec (SpecCodec).                             *)
(***************************************************************************)
\* The issued tokens, signed with the configured secret, that were decoded last.
DecodedIssued ==
    {i \in issued : codec.done /\ i.token = codec.token /\ i.key = ConfigSecret}

\* C9: a token made by encode(p) and decoded with the same secret no later
\* than its expiry yields p.
C9_RoundTrip ==
    \A i \in DecodedIssued :
        codec.at <= i.at + DefaultDuration => codec.result = Ok(i.payload)

C9_Witness ==
    \E i \in DecodedIssued :
        /\ codec.at > i.at
        /\ codec.at <= i.at + DefaultDuration
        /\ codec.result = Ok(i.payload)

C11_SignatureRequired ==
    codec.done =>
        /\ codec.result.ok =>
              \E i \in issued : i.key = ConfigSecret /\ codec.token = i.token
        /\ \A i \in issued :
              \/ i.key # ConfigSecret /\ codec.token = i.token
              \/ \E p \in Payloads :
                    codec.token = Tamper(i.token, p) /\ codec.token # i.token
              => ~codec.result.ok

C11_Witness ==
    /\ codec.done
    /\ codec.result = Err("InvalidSignature")
    /\ \E i \in issued : \E p \in Payloads :
          /\ i.key = ConfigSecret
          /\ codec.token = Tamper(i.token, p)
          /\ codec.token # i.token

(***************************************************************************)
(* Properties of the log sidecar (SpecLogger).                              *)
(***************************************************************************)
\* The requests that completed: their future returned a response.
Completed ==
    {r \in Reqs : lreq[r].pc = "done" /\ lreq[r].down.kind = "response"}

\* Nothing is in flight and the channel is drained.
Quiet ==
    /\ \A r \in Reqs : lreq[r].pc \notin {"downstream", "send"}
    /\ chan = <<>>

\* C12 as stated: once the N requests that completed are through and the
\* channel is drained, the consumer has emitted exactly N records, one per
\* completed request and each exactly once, with that request's fields.
C12_ExactlyOnce ==
    Quiet =>
        /\ Len(lhist.taken) = Cardinality(Completed)
        /\ \A r \in Completed :
              Cardinality({i \in 1..Len(lhist.taken) :
                              lhist.taken[i] = lreq[r].msg}) = 1
        /\ \A i \in 1..Len(lhist.taken) :
              \E r \in Completed : lhist.taken[i] = lreq[r].msg

\* The place of a line's record in the order of sending.
SentIndex(line, isFile) ==
    CHOOSE i \in 1..Len(lhist.sent) :
        Line(logCfg.variant, lhist.sent[i], isFile) = line

Ordered(lines, isFile) ==
    /\ \A i \in 1..Len(lines) :
          \E k \in 1..Len(lhist.sent) :
              Line(logCfg.variant, lhist.sent[k], isFile) = lines[i]
    /\ \A i, j \in 1..Len(lines) :
          i < j => SentIndex(lines[i], isFile) < SentIndex(lines[j], isFile)

\* C13: the consumer takes the records in the order they were sent, and the
\* lines of every sink stand in that order.
C13_SendOrder ==
    /\ Len(lhist.taken) <= Len(lhist.sent)
    /\ lhist.taken = SubSeq(lhist.sent, 1, Len(lhist.taken))
    /\ Ordered(stdout, FALSE)
    /\ \A f \in disk : Ordered(f.lines, TRUE)

\* Two lines on a sink, the first of them for the request that arrived last.
C13_Witness ==
    \/ /\ Len(stdout) = 2
       /\ stdout[1].ip = IpOf(2)
       /\ stdout[2].ip = IpOf(1)
    \/ \E f \in disk :
          /\ Len(f.lines) = 2
          /\ f.lines[1].ip = IpOf(2)
          /\ f.lines[2].ip = IpOf(1)

\* The start time a line stands for.
LineBegin(line, isFile) ==
    IF logCfg.variant = "lib" /\ isFile THEN line.ts ELSE line.ts - line.elapsed

Lines(f) == {f.lines[i] : i \in 1..Len(f.lines)}

\* C14: every line of every log file belongs to a record that started on
\* the date the file is named for, and a record written to the file leaves
\* the consumer, while it runs, with the file of that record's start date
\* open.
C14_OwnDateFile ==
    /\ \A f \in disk : \A l \in Lines(f) : f.name = FileName(LineBegin(l, TRUE))
    /\ lhist.last # NoReport /\ lhist.last.fileTried /\ logger.alive =>
          /\ logger.file.open
          /\ logger.file.name = FileName(lhist.last.rec.begin)
          /\ DateOf(logger.time) = DateOf(lhist.last.rec.begin)

\* Two records written, the second started on an earlier date than the
\* first: each line is in the file of its own date.
C14_Witness ==
    /\ Len(lhist.taken) = 2
    /\ DateOf(lhist.taken[2].begin) < DateOf(lhist.taken[1].begin)
    /\ \A i \in 1..2 :
          \E f \in disk :
              /\ f.name = FileName(lhist.taken[i].begin)
              /\ Lines(f) = {Line(logCfg.variant, lhist.taken[i], TRUE)}

\* A file whose creation lies more than n days back.
OlderThan(age, n) == age > n * DaySeconds

\* The consumer has just written a record to the log file.
JustWrote ==
    /\ lhist.last # NoReport
    /\ lhist.last.fileTried
    /\ ~lhist.last.fileFailed
    /\ lhist.last.at = clock

\* C15 as stated: with a retention window configured, right after the
\* consumer writes a record no file older than the window is left in the
\* directory and no file within the window was removed.
C15_RetentionAfterWrite ==
    logCfg.file /\ logCfg.delete.some /\ JustWrote =>
        /\ \A f \in disk : ~OlderThan(clock - f.created, logCfg.delete.n)
        /\ \A g \in lhist.last.removed : OlderThan(g.age, logCfg.delete.n)

\* C16: a request whose send failed returns the response its downstream
\* gave, unchanged.
C16_SendFailureIgnored ==
    \A r \in Reqs :
        lreq[r].pc = "done" /\ lreq[r].send = "failed" =>
            /\ lreq[r].down.kind = "response"
            /\ lreq[r].outcome = lreq[r].down

C16_Witness ==
    \E r \in Reqs :
        /\ ~logger.alive
        /\ lreq[r].pc = "done"
        /\ lreq[r].send = "failed"
        /\ lreq[r].outcome = lreq[r].down

\* C17: a request that has its response can always send, whatever is queued
\* and whether or not the consumer moves.
C17_SendNeverWaits ==
    \A r \in Reqs : lreq[r].pc = "send" => ENABLED LogSend(r)

\* A request about to send while a record sits in the channel untaken.
C17_Witness ==
    \E r \in Reqs :
        /\ lreq[r].pc = "send"
        /\ logger.alive
        /\ Len(chan) >= 1

\* C18: every record sent belongs to a request whose downstream response
\* was obtained; a request that was cancelled, or has no response yet, has
\* no record; and while the consumer lives the records sent are exactly
\* those taken followed by those queued, so nothing but the consumer takes
\* a record out of the channel or changes one.
C18_SentAfterResponse ==
    /\ \A i \in 1..Len(lhist.sent) :
          \E r \in Reqs :
              /\ lhist.sent[i] = lreq[r].msg
              /\ lreq[r].pc = "done"
              /\ lreq[r].down.kind = "response"
    /\ \A r \in Reqs :
          lreq[r].pc \in {"nolayer", "idle", "downstream", "dropped", "panicked"} =>
              \A i \in 1..Len(lhist.sent) : lhist.sent[i].ip # IpOf(r)
    /\ logger.alive => lhist.taken \o chan = lhist.sent

\* A request was cancelled and the record of another is queued.
C18_Witness ==
    \E r, q \in Reqs :
        /\ lreq[r].pc = "dropped"
        /\ lreq[q].pc = "done"
        /\ chan = <<lreq[q].msg>>

\* C19 as stated: no failure to create the directory or to open the log
\* file happens in the consumer.
C19_OpenFailsOnlyAtStartup ==
    lhist.last # NoReport => ~lhist.last.openFailed

\* C22: within one request `before` completes before the downstream call
\* starts and `after` completes before the response is returned; the
\* response returned is the downstream response as mutated by `after`.
C22_HookOrder ==
    \A r \in Reqs :
        /\ \E n \in 0..4 :
              pipe[r].hist = SubSeq(<<"before", "downstream", "after", "return">>, 1, n)
              \/ pipe[r].hist = <<"before", "return">>
              \/ pipe[r].hist = <<"before", "downstream", "return">>
        /\ pipe[r].downCalls = 1 => pipe[r].hist[1] = "before"
        /\ (pipe[r].pc = "done" /\ pipe[r].down.kind = "response") =>
              /\ pipe[r].hist = <<"before", "downstream", "after", "return">>
              /\ pipe[r].outcome = AfterEffect(pipe[r].before.ctx, pipe[r].down)

\* A request returned its downstream 404 response stamped by `after`.
C22_Witness ==
    \E r \in Reqs :
        /\ pipe[r].pc = "done"
        /\ pipe[r].down = DownResponse(404)
        /\ pipe[r].outcome.mark = pipe[r].before.ctx
        /\ pipe[r].outcome # pipe[r].down

\* The order of the hooks of one request through the two adapters.
Onion == <<"A.before", "B.before", "downstream", "B.after", "A.after", "return">>

C24_OwnContext ==
    \A r \in Reqs :
        /\ pipe[r].afterCalls <= 1
        /\ pipe[r].afterCalls = 1 =>
              /\ pipe[r].before.ok
              /\ pipe[r].afterCtx = pipe[r].before.ctx
              /\ pipe[r].ctx = "none"
        /\ pipe[r].afterCalls = 0 => pipe[r].afterCtx = "none"
        /\ pipe[r].ctx # "none" => pipe[r].ctx = pipe[r].before.ctx

\* Two requests overlapped with different contexts: one finished its
\* `after` while the other still held its own context.
C24_Witness ==
    \E r, q \in Reqs :
        /\ pipe[r].afterCalls = 1
        /\ pipe[q].pc \in {"downstream", "after"}
        /\ pipe[q].ctx # "none"
        /\ pipe[q].ctx # pipe[r].afterCtx

\* C20 as stated: a turn of the consumer in which a line could not be
\* written or the retention scan failed leaves the consumer running, has
\* tried every enabled sink, and has failed no request.
C20_FaultsSwallowed ==
    /\ lhist.last # NoReport
    /\ ~lhist.last.openFailed
    /\ lhist.last.stdoutFailed \/ lhist.last.fileFailed \/ lhist.last.scanFailed
    => /\ logger.alive
       /\ logCfg.stdout => lhist.last.stdoutTried
       /\ logCfg.file => lhist.last.fileTried
       /\ \A r \in Completed : lreq[r].outcome = lreq[r].down

\* C21: one consumer is started, by Logger::new, and no step starts
\* another; every step of a producer (a step that moves a request, the
\* making of a LoggerService included) leaves the consumer's state, its
\* open file and its rotation date, as it was.
C21_SingleConsumer ==
    [][/\ logger.spawned = 1
       /\ logger'.spawned = 1
       /\ lreq' # lreq => logger' = logger /\ disk' = disk]_vars

\* Every request has its own LoggerService and the consumer has written a
\* record to its file.
C21_Witness ==
    /\ \A r \in Reqs : lreq[r].pc # "nolayer"
    /\ logger.spawned = 1
    /\ lhist.last # NoReport
    /\ lhist.last.fileTried

(***************************************************************************)
(* Properties of the concrete interceptors (SpecIntercept).                *)
(***************************************************************************)
\* The interceptor of kind `kind` has run `before` on the current request.
Ran(kind) == icept.cfg.kind = kind /\ icept.before # NoOutcome

\* The adapter has returned a response that went through `after`.
Answered(kind) ==
    /\ Ran(kind)
    /\ icept.pc = "done"
    /\ icept.afterCalls = 1

\* C26: BlackIp rejects a request without ConnectInfo with 400 and a
\* request whose address the comparison matches with 403, neither reaching
\* downstream; any other request passes with unit context, downstream is
\* called once and its response is returned as it is.
C26_Blocklist ==
    Ran("BlackIp") =>
        LET req == icept.req
            matches == Compare(icept.cfg.handler, req.conn.ip)
        IN /\ ~req.conn.has =>
                /\ ~icept.before.ok /\ icept.before.err.code = 400
                /\ icept.downCalls = 0
                /\ icept.outcome.kind = "response" /\ icept.outcome.status = 400
           /\ (req.conn.has /\ matches) =>
                /\ ~icept.before.ok /\ icept.before.err.code = 403
                /\ icept.downCalls = 0
                /\ icept.outcome.kind = "response" /\ icept.outcome.status = 403
           /\ (req.conn.has /\ ~matches) =>
                /\ icept.before.ok /\ icept.ctx = "unit"
                /\ icept.downCalls = 1
                /\ icept.pc = "done" => icept.outcome = icept.down

\* An address outside the list got the downstream 404 back untouched.
C26_Witness ==
    /\ Answered("BlackIp")
    /\ icept.cfg.handler.kind = "array"
    /\ icept.req.conn = Conn(<<"b", "a">>)
    /\ icept.down.kind = "response"
    /\ icept.down.status = 404
    /\ icept.outcome = icept.down

\* The query string holds `type` once, with the value `download`.
AsksDownload(q) ==
    /\ q.some
    /\ Cardinality({i \in 1..Len(q.pairs) : q.pairs[i].k = "type"}) = 1
    /\ \A i \in 1..Len(q.pairs) : q.pairs[i].k = "type" => q.pairs[i].v = "download"

\* C27: Download's `before` never rejects and returns true exactly for a
\* query string that parses as type=download; `after` sets Content-Type to
\* application/octet-stream and Content-Disposition to attachment when
\* the flag is true and leaves the response as it is when it is false.
C27_DownloadFlag ==
    Ran("Download") =>
        /\ icept.before.ok
        /\ icept.before.ctx \in {"true", "false"}
        /\ icept.before.ctx = "true" <=> AsksDownload(icept.req.query)
        /\ icept.downCalls = 1
        /\ Answered("Download") =>
              IF icept.before.ctx = "true"
              THEN /\ icept.outcome.ctype = "application/octet-stream"
                   /\ icept.outcome.disposition = "attachment"
                   /\ icept.outcome =
                        [icept.down EXCEPT !.ctype = icept.outcome.ctype,
                                           !.disposition = icept.outcome.disposition]
              ELSE icept.outcome = icept.down

\* `?x=..&type=download` turned an inline response into an attachment.
C27_Witness ==
    /\ Answered("Download")
    /\ Len(icept.req.query.pairs) = 2
    /\ icept.req.query.pairs[1].k = "x"
    /\ icept.before.ctx = "true"
    /\ icept.down.disposition = "inline"
    /\ icept.outcome.disposition = "attachment"

\* C28: Html404's `after` on a 404 whose page is opened and read puts the
\* page in the body and its byte length in Content-Length; a response that
\* is not 404, and a 404 whose page cannot be opened or read, is returned
\* as it is.
C28_Fallback ==
    Answered("Html404") =>
        LET pageRead == icept.fs.open /\ icept.fs.read IN
        /\ (icept.down.status = 404 /\ pageRead) =>
              /\ icept.outcome.body = icept.fs.contents
              /\ icept.outcome.length = Len(icept.fs.contents)
              /\ icept.outcome.status = 404
        /\ icept.down.status # 404 => icept.outcome = icept.down
        /\ (icept.down.status = 404 /\ ~pageRead) => icept.outcome = icept.down

\* A 404 was answered with a two-byte page whose metadata gave another
\* size.
C28_Witness ==
    /\ Answered("Html404")
    /\ icept.down.status = 404
    /\ icept.fs.read /\ icept.fs.meta
    /\ icept.fs.size # Len(icept.fs.contents)
    /\ icept.outcome.length = 2
    /\ icept.outcome.body = <<"p", "p">>

\* C38: when Html404 replaces the body with the page, the status stays
\* 404 and of the headers only Content-Length and Content-Type change,
\* Content-Type to text/html.
C38_FallbackFrame ==
    (Answered("Html404") /\ icept.down.status = 404
        /\ icept.fs.open /\ icept.fs.read) =>
        /\ icept.outcome.status = icept.down.status
        /\ icept.outcome.status = 404
        /\ icept.outcome.ctype = "text/html"
        /\ icept.outcome.disposition = icept.down.disposition
        /\ icept.outcome =
              [icept.down EXCEPT !.length = icept.outcome.length,
                                 !.ctype = icept.outcome.ctype,
                                 !.body = icept.outcome.body]

\* A 404 with Content-Disposition: inline had its body replaced by the page.
C38_Witness ==
    /\ Answered("Html404")
    /\ icept.down.status = 404
    /\ icept.down.disposition = "inline"
    /\ icept.fs.read
    /\ icept.outcome.body = <<"p">>
    /\ icept.outcome.ctype = "text/html"

\* The extension of the path is `html` in some mix of cases.
HtmlExtension(path) ==
    /\ Extension(path).some
    /\ Extension(path).ext \in {<<"html">>, <<"HtMl">>}

\* C29: Html404::new returns an interceptor exactly for a path whose
\* extension is `html` in any mix of cases and panics for every other
\* path, one without extension included; an Html404 of another path
\* never takes a request.
C29_FailFast ==
    icept.cfg.kind = "Html404" =>
        /\ icept.pc # "panicked" <=> HtmlExtension(icept.cfg.path)
        /\ ~HtmlExtension(icept.cfg.path) =>
              /\ icept.served = 0
              /\ icept.before = NoOutcome
              /\ ~ENABLED IceptStart

\* Html404::new("a.htm") has panicked.
C29_Witness ==
    /\ icept.cfg.kind = "Html404"
    /\ icept.cfg.path = <<"a", ".", "htm">>
    /\ icept.pc = "panicked"

\* C31 as stated: converting a rejection never panics; every rejection a
\* `before` hook returned has become a response whose status is the
\* rejection's code and whose body carries its message.
C31_RejectionNeverPanics ==
    \A r \in Reqs :
        (pipe[r].pc \in {"done", "panicked"} /\ ~pipe[r].before.ok) =>
            /\ pipe[r].pc = "done"
            /\ pipe[r].outcome.kind = "response"
            /\ pipe[r].outcome.status = pipe[r].before.err.code
            /\ pipe[r].outcome.body[4] = pipe[r].before.err.info

(***************************************************************************)
(* Properties of tools::unit (SpecUnit).                                   *)
(***************************************************************************)
\* The first of KB, MB, GB, TB in which the byte count is below 1024, TB
\* when there is none.
FirstUnit(n) ==
    LET ks == {k \in 1..4 : Below(n, k)} IN
    IF ks = {} THEN 4 ELSE CHOOSE k \in ks : \A j \in ks : k <= j

\* The byte count has no more than 53 significant bits down to bit 0.
FitsF64(n) ==
    Top(n) = 0 \/ 10 * (Top(n) - 1) + BitLen(n[Top(n)]) <= Mantissa

\* C32 as stated: unit(n) is n divided by 1024^k with one decimal and the
\* suffix of the first unit in which the quotient is below 1024, TB when
\* there is none.
C32_ExactQuotient ==
    calc.done => calc.out = Printed(calc.n, FirstUnit(calc.n))

\* C32 amended: the unit is the first in which n / 1024^k is below 1024,
\* TB when there is none; the number is the f64 nearest to n, divided by
\* 1024^k, with one decimal: n itself for n below 2^53.  2^10, 2^20, 2^30
\* and 2^40 give 1.0KB, 1.0MB, 1.0GB, 1.0TB and 1025 * 2^40 gives 1025.0TB.
C32_F64Quotient ==
    calc.done =>
        LET k == FirstUnit(calc.n) IN
        /\ calc.out = Printed(AsF64(calc.n), k)
        /\ calc.out.unit = UNIT[k]
        /\ FitsF64(calc.n) => calc.out = Printed(calc.n, k)
        /\ \A j \in 1..4 :
              calc.n = [Zero EXCEPT ![j + 1] = 1] =>
                  calc.out = [whole |-> 1, tenth |-> 0, unit |-> UNIT[j]]
        /\ calc.n = Num(<<0, 0, 0, 0, 1, 1>>) =>
              calc.out = [whole |-> 1025, tenth |-> 0, unit |-> "TB"]

\* 9007254230322381 bytes, 8192.05 TB and a little more, were printed as
\* 8192.0TB: the f64 nearest to the count is below 8192.05 TB.
C32_Witness ==
    /\ calc.done
    /\ calc.n = Num(<<205, 819, 204, 51, 0, 8>>)
    /\ ~FitsF64(calc.n)
    /\ calc.out = [whole |-> 8192, tenth |-> 0, unit |-> "TB"]
    /\ Printed(calc.n, 4) = [whole |-> 8192, tenth |-> 1, unit |-> "TB"]

(***************************************************************************)
(* Properties of the multipart Take (SpecForm).                            *)
(***************************************************************************)
\* The form has been read to its end, every extract having succeeded.
AllExtracted == form.pc \in {"accepted", "invalid"} /\ form.oks = form.calls

\* C39 as stated: with a count range start..end, start < end, a form
\* whose k fields were all extracted, k >= start, passes verify; with the
\* default range 1..1 a form passes exactly when it has one field.
C39_ExtractVerifyAgree ==
    /\ (AllExtracted /\ form.count.start < form.count.end
            /\ form.oks >= form.count.start) => form.pc = "accepted"
    /\ (form.count = DefaultCount /\ form.pc = "accepted") => form.oks = 1
    /\ (form.count = DefaultCount /\ AllExtracted /\ form.oks = 1) =>
            form.pc = "accepted"
    /\ form.count = DefaultCount => form.oks <= 1

\* C30: a request without ConnectInfo makes call panic: the inner service
\* is not called, no record of the request is sent, and the caller gets no
\* response, a rejection included.
C30_NoConnectInfoPanics ==
    \A r \in Reqs :
        ~lreq[r].conn =>
            /\ lreq[r].pc = "panicked"
            /\ lreq[r].innerCalls = 0
            /\ lreq[r].outcome = NoOutcome
            /\ lreq[r].send = "none"
            /\ \A i \in 1..Len(lhist.sent) : lhist.sent[i].ip # IpOf(r)

C30_Witness ==
    \E r, q \in Reqs :
        /\ lreq[r].pc = "panicked"
        /\ ~lreq[r].conn
        /\ lreq[q].pc = "done"
        /\ lreq[q].send = "ok"

\* The expirable entries of `dir` at `now` that are still in `after`.
LeftOver(cfg, dir, now, after) ==
    {f \in Expirable(cfg, dir, now) :
        \E g \in after : g.name = f.name /\ g.created = f.created}

\* C36 as stated: a retention scan that fails on one expired file still
\* removes the other expired files, so a failed scan leaves at most one
\* of the files that were expired when it began.
C36_ScanSurvivesFault ==
    [][(lhist'.last # lhist.last /\ lhist'.last.scanFailed) =>
          Cardinality(LeftOver(logCfg, disk, clock, disk')) <= 1]_vars

\* The handle `h` is open on a file the directory `dir` still has.
InDirectory(h, dir) ==
    \E f \in dir : f.name = h.name /\ f.created = h.created

\* C35 as stated: retention never removes the file the consumer has open,
\* and the line of every record the consumer has written is in a file of
\* the log directory.
C35_OpenFileKept ==
    /\ (logger.alive /\ logger.file.open) => InDirectory(logger.file, disk)
    /\ (JustWrote /\ logger.alive) =>
          \E f \in disk : \E i \in 1..Len(f.lines) :
              f.lines[i] = Line(logCfg.variant, lhist.last.rec, TRUE)

\* The records sent for request r.
SentFor(r) == {i \in 1..Len(lhist.sent) : lhist.sent[i].ip = IpOf(r)}

\* The future of request r has ended.
Ended(r) == lreq[r].pc \in {"done", "panicked"} /\ lreq[r].down # NoOutcome

\* C37 as stated: a request rejected inside the Logger comes back as a
\* response and has exactly one record sent for it, with the status of
\* the rejection; a request whose downstream returned an error has none.
C37_RejectionLogged ==
    \A r \in Reqs :
        Ended(r) =>
            /\ lreq[r].down.rejected =>
                  /\ lreq[r].pc = "done"
                  /\ lreq[r].outcome.kind = "response"
                  /\ Cardinality(SentFor(r)) = 1
                  /\ \A i \in SentFor(r) :
                        lhist.sent[i].status = lreq[r].outcome.status
            /\ lreq[r].down.kind = "error" => SentFor(r) = {}

\* The lines written so far, on stdout and in the files.
WrittenLines ==
    {stdout[i] : i \in 1..Len(stdout)}
        \cup UNION {{f.lines[i] : i \in 1..Len(f.lines)} : f \in disk}

\* The record of request r holds what call sampled: the start time read
\* before the inner call, the status of the response, and the path with
\* the redirect target exactly when the response has a Location header.
SampledAround(r) ==
    /\ lreq[r].msg.begin = lreq[r].begin
    /\ lreq[r].innerCalls = 1
    /\ lreq[r].msg.status = lreq[r].down.status
    /\ lreq[r].msg.path =
          IF lreq[r].down.hasLoc
          THEN PathOf(r) \o <<" -> ">> \o lreq[r].down.loc ELSE PathOf(r)

\* C34 as stated: start is sampled before the request is forwarded, end
\* and status after the response returns, the path carries " -> target"
\* exactly when the response has a Location header, and no line is
\* written with a negative duration.
C34_SampledAround ==
    /\ \A r \in Reqs : lreq[r].msg # NoOutcome => SampledAround(r)
    /\ \A line \in WrittenLines : line.elapsed >= 0

\* The n-th record sent has its line on every enabled sink.
WrittenNth(n) ==
    /\ Len(lhist.sent) >= n
    /\ logCfg.stdout =>
          \E i \in 1..Len(stdout) :
              stdout[i] = Line(logCfg.variant, lhist.sent[n], FALSE)
    /\ logCfg.file =>
          \E f \in disk : \E i \in 1..Len(f.lines) :
              f.lines[i] = Line(logCfg.variant, lhist.sent[n], TRUE)

\* The consumer ran the body of its loop for the n-th record sent to the
\* end: each enabled sink has the line, or the failed write was reported.
Handled(n) ==
    /\ Len(lhist.taken) >= n
    /\ Len(lhist.taken) > n \/ logger.alive

\* C33 as stated, a write that failed and was reported counting as made:
\* with the consumer scheduled fairly every record sent is eventually
\* written by it, and when the consumer's loop ends after the last sender
\* is gone every record sent has been written.
C33_EventuallyWritten ==
    /\ \A n \in 1..NumReqs : (Len(lhist.sent) >= n) ~> Handled(n)
    /\ [](logger.run = "ended" => \A n \in 1..Len(lhist.sent) : Handled(n))

\* The part of C33 that no fault touches: the loop does not end while a
\* record is queued, and a run free of faults writes every record.
C33_DrainedAtEnd ==
    /\ [](logger.run = "ended" => Len(lhist.taken) = Len(lhist.sent))
    /\ \A n \in 1..NumReqs :
          (Len(lhist.sent) >= n) ~> (WrittenNth(n) \/ lhist.faults > 0)

====
